---- MODULE Spec2Model ----
(***************************************************************************)
(* Token bucket rate limiter: the in-memory TokenBucket                     *)
(* (src/src/tokenBucket.ts) with its hook and its acquire, the Redis-backed *)
(* RedisTokenBucket (src/src/redisBucket.ts) with its Lua script and a      *)
(* store that can fail, and the TokenBucketManager (src/src/manager.ts).    *)
(*                                                                         *)
(* Numbers.  Tokens and costs are JavaScript/Lua doubles.  They are held   *)
(* here in fixed point, in units of 1/TokUnit token, with exact            *)
(* arithmetic; clock readings are integer milliseconds and refillRate is   *)
(* a whole number of tokens per second, so that                            *)
(*     elapsedSeconds * refillRate  =  elapsedMs * refillRate * TokUnit/1000 *)
(* units exactly.                                                          *)
(*                                                                         *)
(* Time.  A synchronous method runs at one instant: every reading of the   *)
(* clock it takes gives the same value.  The clocks move between calls,    *)
(* and between the sending of a command to the store and its reply.        *)
(***************************************************************************)
EXTENDS Integers, Sequences, FiniteSets, TLC

\* ------------------------------------------------------------------ bounds
\* units per token: 1e-5 token resolution, finer than getState's toFixed(4)
TokUnit == 100000

\* allow() calls per bucket instance (caps the request counters)
MaxRequests == 2

\* the readings a clock can return (milliseconds)
Times == {0, 500, 2000}

\* (capacity, refillRate) pairs a bucket is constructed with
Configs ==
    { [capacity |-> 1,  refillRate |-> 0],
      [capacity |-> 1,  refillRate |-> 1],
      [capacity |-> 2,  refillRate |-> 3],
      [capacity |-> 10, refillRate |-> 5] }

\* (capacity, refillRate) pairs the constructors reject
BadConfigs ==
    { [capacity |-> 0,     refillRate |-> 1],
      [capacity |-> 0 - 1, refillRate |-> 1],
      [capacity |-> 1,     refillRate |-> 0 - 1] }

\* cost arguments, in units: -1, 0.00005, 1 and 10 tokens
Costs == { 0 - TokUnit, 5, TokUnit, 10 * TokUnit }

\* JavaScript's Infinity (needed / 0 with needed > 0)
Infinity == 1000000000

\* cost arguments of acquire, in units: 1 and 10 tokens
AcquireCosts == { TokUnit, 10 * TokUnit }

\* acquire's timeoutMs argument left out
Undefined == 0 - 1

\* the latest clock reading a wait is followed to (ms)
MaxClock == 4000

\* timeoutMs arguments of acquire
Timeouts == { Undefined, 100, 1000 }

VARIABLES
    impl,                 \* "local": a TokenBucket; "remote": RedisTokenBucket
                          \* instances; "pair": a TokenBucket and a
                          \* RedisTokenBucket given the same calls;
                          \* "manager": a TokenBucketManager;
                          \* "none": the constructor threw, no bucket
    capacity,             \* options.capacity (tokens)
    refillRate,           \* options.refillRate (tokens per second)
    injected,             \* options.currentTime was given
    dateNow,              \* what Date.now() returns
    clock,                \* what the injected options.currentTime() returns
    tokens,               \* TokenBucket.tokens (units)
    lastRefillTimestamp,  \* TokenBucket.lastRefillTimestamp (ms)
    totalRequests,        \* TokenBucket.totalRequests
    allowedRequests,      \* TokenBucket.allowedRequests
    limitedRequests,      \* TokenBucket.limitedRequests
    last,                 \* the last TokenBucket call: name, cost argument, result
    onRateLimit,          \* options.onRateLimit: "none", or a hook that "returns" or "throws"
    hook,                 \* how many times the hook has been invoked
    consumed,             \* the tokens the metered callers have been granted (units);
                          \* of a metered manager: per identifier, with its first use
    acq,                  \* the acquire() call in flight on the TokenBucket, if any
    redis,                \* the hash stored under the key of the Redis-backed bucket
    inst,                 \* the RedisTokenBucket instances sharing that key
    deleted,              \* the key has been deleted (a reset reached the store)
    ttlSeconds,           \* RedisTokenBucket.ttlSeconds ?? 0, as runScript passes it
    expireAt,             \* the store's time (ms) at which the key expires, if set
    ttlMs,                \* TokenBucketManager.ttlMs
    managerOnRateLimit,   \* TokenBucketManager.onRateLimit: "none", "returns", "throws"
    managerHook,          \* how many times the manager's hook has been invoked
    buckets,              \* TokenBucketManager.buckets: key -> { bucket, lastAccess }
    factoryCalls,         \* how many times createBucket has been called with each key
    mlast                 \* the last TokenBucketManager call: name, key, result

localVars == << injected, dateNow, clock, tokens, lastRefillTimestamp,
                totalRequests, allowedRequests, limitedRequests, last,
                onRateLimit, hook, consumed, acq >>

remoteVars == << redis, inst, deleted, ttlSeconds, expireAt >>

managerVars == << ttlMs, managerOnRateLimit, managerHook, buckets,
                  factoryCalls, mlast >>

vars == << impl, capacity, refillRate, localVars, remoteVars, managerVars >>

\* ----------------------------------------------------------------- helpers
Min(a, b) == IF a <= b THEN a ELSE b

\* Math.ceil(a / b) for a > 0, b > 0
CeilDiv(a, b) == (a + b - 1) \div b

\* capacity in units
CapacityUnits == capacity * TokUnit

\* elapsedSeconds * refillRate, in units, for elapsedMs milliseconds
RefillAmount(elapsedMs) == elapsedMs * refillRate * (TokUnit \div 1000)

\* the identifiers a TokenBucketManager is called with
Keys == { "a", "b" }

\* the readings of Date.now() in the program of the TokenBucketManager
ManagerTimes == { 0, 500, 1500, 2000 }

\* ttlMs options of the TokenBucketManager: left out, or one second
Ttls == { Undefined, 1000 }

\* cost arguments of the calls on a TokenBucketManager, in units: 1 token
ManagerCosts == { TokUnit }

\* no entry under a key of TokenBucketManager.buckets
NoEntry ==
    [ present |-> FALSE, lastAccess |-> 0,
      bucket |-> [ id |-> 0, tokens |-> 0, lastRefillTimestamp |-> 0,
                   totalRequests |-> 0, allowedRequests |-> 0,
                   limitedRequests |-> 0 ] ]

\* the record of a TokenBucketManager call
ManagerCall(op, key, cost, ok, wait, shown, threw) ==
    [ op |-> op, key |-> key, cost |-> cost, ok |-> ok, wait |-> wait,
      shown |-> shown, threw |-> threw ]

\* the program has no TokenBucketManager
NoManager ==
    /\ ttlMs = Undefined
    /\ managerOnRateLimit = "none"
    /\ managerHook = 0
    /\ buckets = [ k \in Keys |-> NoEntry ]
    /\ factoryCalls = [ k \in Keys |-> 0 ]
    /\ mlast = ManagerCall("none", "a", 0, TRUE, 0, 0, "no")

\* the RedisTokenBucket instances (possibly in different processes)
Insts == { "A", "B" }

\* (capacity, refillRate) pairs the instances sharing a key are constructed with
RemoteConfigs == { c \in Configs : c.capacity <= 2 }

\* cost arguments of the calls on a RedisTokenBucket, in units: 1 token
RemoteCosts == { TokUnit }

\* a key that does not exist: HMGET returns nil for both fields
Absent == [ exists |-> FALSE, tokens |-> 0, lastRefill |-> 0 ]

\* no reply yet
NoReply == [ allowed |-> 0, tokens |-> 0, lastRefill |-> 0, stored |-> 0 ]

\* new RedisTokenBucket(options): counters at 0, nothing in flight
NewInstance ==
    [ pc |-> "idle", op |-> "none", cost |-> 0, now |-> 0, reply |-> NoReply,
      totalRequests |-> 0, allowedRequests |-> 0, limitedRequests |-> 0 ]

\* ------------------------------------------------------- TokenBucket (local)
\* a constructor accepting capacity 0
invalidOptionsLenient(c, r) == c < 0 \/ r < 0

\* TokenBucket constructor: if (options.capacity <= 0 || options.refillRate < 0)
\* throw
invalidOptions(c, r) == c <= 0 \/ r < 0

\* this.getTime: options.currentTime || (() => Date.now())
getTime == IF injected THEN clock ELSE dateNow

\* refill adding the tokens without moving lastRefillTimestamp
refillKeepsTimestamp(tok, lastR, now) ==
    IF now - lastR > 0
    THEN [ tokens |-> Min(tok + RefillAmount(now - lastR), CapacityUnits),
           lastRefillTimestamp |-> lastR ]
    ELSE [ tokens |-> tok, lastRefillTimestamp |-> lastR ]

\* TokenBucket.refill
refill(tok, lastR, now) ==
    IF now - lastR > 0
    THEN [ tokens |-> Min(tok + RefillAmount(now - lastR), CapacityUnits),
           lastRefillTimestamp |-> now ]
    ELSE [ tokens |-> tok, lastRefillTimestamp |-> lastR ]

\* allow deciding with > instead of >=
allowDecisionStrict(tok, cost) == tok > cost

\* allow: if (this.tokens >= cost)
allowDecision(tok, cost) == tok >= cost

\* an allow that takes the cost twice
allowTokensTwice(tok, cost) == IF tok >= cost THEN tok - cost - cost ELSE tok

\* an allow that grants without taking the tokens
allowTokensKept(tok, cost) == tok

\* allow: this.tokens -= cost on the allowed path, untouched on denial
allowTokens(tok, cost) == IF allowDecision(tok, cost) THEN tok - cost ELSE tok

\* check: return this.tokens >= cost
checkDecision(tok, cost) == tok >= cost

\* timeToRefill after the refill: 0, or Math.ceil((needed / refillRate) * 1000)
timeToRefillMs(tok, cost) ==
    IF tok >= cost THEN 0
    ELSE IF refillRate = 0 THEN Infinity
    ELSE CeilDiv((cost - tok) * 1000, refillRate * TokUnit)

\* Number(x.toFixed(4)): x rounded to 4 decimals (x >= 0)
toFixed4(x) ==
    LET step == TokUnit \div 10000
    IN  ((x + step \div 2) \div step) * step

\* reset refilling the bucket without taking the clock reading
resetStateKeepsTimestamp(now) ==
    [ tokens |-> CapacityUnits, lastRefillTimestamp |-> lastRefillTimestamp ]

\* reset: tokens = capacity, lastRefillTimestamp = getTime()
resetState(now) == [ tokens |-> CapacityUnits, lastRefillTimestamp |-> now ]

\* the record of a call: its name, its cost argument, the reading getTime()
\* gave it and what it returned (ok: allow/check/acquire; wait:
\* timeToRefill; shown: the tokens of the getState() snapshot, returned by
\* getState or passed to the hook by allow); threw is "no" for a call that
\* returned
Call(op, cost, now, ok, wait, shown) ==
    [ op |-> op, cost |-> cost, now |-> now, ok |-> ok, wait |-> wait,
      shown |-> shown, threw |-> "no" ]

\* the record of a call that threw: "config" (the error of the
\* constructor), "hook" (the error of the rate-limit hook), "shortage" or
\* "timeout" (the errors of acquire)
Threw(call, error) == [ call EXCEPT !.threw = error ]

\* the record of a turn of acquire(cost, timeoutMs) entered at the clock
\* reading start
AcquireCall(cost, timeoutMs, start, now, ok, wait, shown) ==
    [ op |-> "acquire", cost |-> cost, now |-> now, ok |-> ok, wait |-> wait,
      shown |-> shown, threw |-> "no", timeoutMs |-> timeoutMs, start |-> start ]

\* no acquire() in flight
NoAcquire == [ pc |-> "none", cost |-> 0, timeoutMs |-> 0, start |-> 0,
               due |-> 0 ]

\* allow counting the call but not the denial
countAllowSkipsLimited(ok) ==
    [ totalRequests   |-> totalRequests + 1,
      allowedRequests |-> IF ok THEN allowedRequests + 1 ELSE allowedRequests,
      limitedRequests |-> limitedRequests ]

\* allow: totalRequests += 1, then allowedRequests += 1 or limitedRequests += 1
countAllow(ok) ==
    [ totalRequests   |-> totalRequests + 1,
      allowedRequests |-> IF ok THEN allowedRequests + 1 ELSE allowedRequests,
      limitedRequests |-> IF ok THEN limitedRequests ELSE limitedRequests + 1 ]

\* allow invoking the hook whatever it decided
hookInvokedAlways(ok) == onRateLimit # "none"

\* allow: on the denial path, if (this.onRateLimit) this.onRateLimit(...)
hookInvoked(ok) == ~ok /\ onRateLimit # "none"

\* allow(cost) at clock reading now on a bucket holding (tok, lastR): what it
\* leaves and what it returns.  The hook is passed this.getState(), which
\* refills once more and rounds the tokens; a hook that throws is not
\* caught, so its error leaves allow.
allowOutcome(tok, lastR, cost, now) ==
    LET r      == refill(tok, lastR, now)
        ok     == allowDecision(r.tokens, cost)
        called == hookInvoked(ok)
        g      == refill(allowTokens(r.tokens, cost), r.lastRefillTimestamp, now)
    IN  [ ok       |-> ok,
          tokens   |-> IF called THEN g.tokens ELSE allowTokens(r.tokens, cost),
          lastRefillTimestamp |->
              IF called THEN g.lastRefillTimestamp ELSE r.lastRefillTimestamp,
          counters |-> countAllow(ok),
          hook     |-> IF called THEN hook + 1 ELSE hook,
          shown    |-> IF called THEN toFixed4(g.tokens) ELSE 0,
          threw    |-> IF called /\ onRateLimit = "throws" THEN "hook" ELSE "no" ]

\* new TokenBucket(options): throws on invalid options; else full,
\* lastRefillTimestamp = Date.now(); the record of the call holds what the
\* bucket's clock (getTime) reads then
InitLocal ==
    /\ \E c \in Configs \cup BadConfigs :
          capacity = c.capacity /\ refillRate = c.refillRate
    /\ impl = IF invalidOptions(capacity, refillRate) THEN "none" ELSE "local"
    /\ injected \in BOOLEAN
    /\ dateNow \in Times
    /\ clock \in (IF injected THEN Times ELSE {0})
    /\ tokens = CapacityUnits
    /\ lastRefillTimestamp = dateNow
    /\ totalRequests = 0
    /\ allowedRequests = 0
    /\ limitedRequests = 0
    /\ last = Threw(Call("new", 0, getTime, TRUE, 0, 0),
                    IF impl = "none" THEN "config" ELSE "no")
    /\ onRateLimit \in { "none", "returns", "throws" }
    /\ hook = 0
    /\ consumed = 0
    /\ acq = NoAcquire
    /\ redis = Absent
    /\ inst = [ p \in Insts |-> NewInstance ]
    /\ deleted = FALSE
    /\ ttlSeconds = 0
    /\ expireAt = Undefined
    /\ NoManager

\* the injected clock returns another reading (any, also an earlier one)
ClockReturns ==
    /\ impl \in { "local", "pair" } /\ injected
    /\ \E t \in Times \ {clock} : clock' = t
    /\ UNCHANGED << managerVars, impl, capacity, refillRate, injected, dateNow, tokens,
                    lastRefillTimestamp, totalRequests, allowedRequests,
                    limitedRequests, last, onRateLimit, consumed, hook, acq, remoteVars >>

\* wall-clock time passes
DateNowAdvances ==
    /\ impl \in { "local", "pair" } /\ ~injected
    /\ \E t \in Times : t > dateNow /\ dateNow' = t
    /\ UNCHANGED << managerVars, impl, capacity, refillRate, injected, clock, tokens,
                    lastRefillTimestamp, totalRequests, allowedRequests,
                    limitedRequests, last, onRateLimit, consumed, hook, acq, remoteVars >>

\* the bucket's clock moves on from the reading of the last timeToRefill
\* call by the wait that call returned, or by 1 ms less
WaitPasses ==
    /\ impl = "local"
    /\ last.op = "timeToRefill" /\ last.wait > 0 /\ last.wait < Infinity
    /\ \E d \in { last.wait, last.wait - 1 } :
          /\ last.now + d <= MaxClock
          /\ last.now + d # getTime
          /\ IF injected
             THEN clock' = last.now + d /\ dateNow' = dateNow
             ELSE /\ last.now + d > dateNow
                  /\ dateNow' = last.now + d
                  /\ clock' = clock
    /\ UNCHANGED << managerVars, impl, capacity, refillRate, injected, tokens,
                    lastRefillTimestamp, totalRequests, allowedRequests,
                    limitedRequests, last, onRateLimit, consumed, hook, acq, remoteVars >>

\* TokenBucket.allow(cost): what the call does to the bucket
allow(cost) ==
    LET now == getTime
        a   == allowOutcome(tokens, lastRefillTimestamp, cost, now)
    IN  /\ totalRequests' = a.counters.totalRequests
        /\ allowedRequests' = a.counters.allowedRequests
        /\ limitedRequests' = a.counters.limitedRequests
        /\ tokens' = a.tokens
        /\ lastRefillTimestamp' = a.lastRefillTimestamp
        /\ hook' = a.hook
        /\ last' = Threw(Call("allow", cost, now, a.ok, 0, a.shown), a.threw)

\* TokenBucket.check(cost)
check(cost) ==
    LET now == getTime
        r   == refill(tokens, lastRefillTimestamp, now)
    IN  /\ tokens' = r.tokens
        /\ lastRefillTimestamp' = r.lastRefillTimestamp
        /\ last' = Call("check", cost, now, checkDecision(r.tokens, cost), 0, 0)
        /\ UNCHANGED << totalRequests, allowedRequests, limitedRequests, hook >>

\* TokenBucket.timeToRefill(cost)
timeToRefill(cost) ==
    LET now == getTime
        r   == refill(tokens, lastRefillTimestamp, now)
    IN  /\ tokens' = r.tokens
        /\ lastRefillTimestamp' = r.lastRefillTimestamp
        /\ last' = Call("timeToRefill", cost, now, TRUE,
                        timeToRefillMs(r.tokens, cost), 0)
        /\ UNCHANGED << totalRequests, allowedRequests, limitedRequests, hook >>

\* TokenBucket.getState()
getState ==
    LET now == getTime
        r   == refill(tokens, lastRefillTimestamp, now)
    IN  /\ tokens' = r.tokens
        /\ lastRefillTimestamp' = r.lastRefillTimestamp
        /\ last' = Call("getState", 0, now, TRUE, 0, toFixed4(r.tokens))
        /\ UNCHANGED << totalRequests, allowedRequests, limitedRequests, hook >>

\* TokenBucket.reset()
reset ==
    LET now == getTime
        s   == resetState(now)
    IN  /\ tokens' = s.tokens
        /\ lastRefillTimestamp' = s.lastRefillTimestamp
        /\ last' = Call("reset", 0, now, TRUE, 0, 0)
        /\ UNCHANGED << totalRequests, allowedRequests, limitedRequests, hook >>

\* a caller calls allow(cost) on the TokenBucket
Allow ==
    /\ impl = "local"
    /\ totalRequests < MaxRequests
    /\ \E cost \in Costs : allow(cost)
    /\ UNCHANGED << managerVars, impl, capacity, refillRate, injected, dateNow, clock,
                    onRateLimit, consumed, acq, remoteVars >>

\* a caller calls check(cost) on the TokenBucket
Check ==
    /\ impl = "local"
    /\ \E cost \in Costs : check(cost)
    /\ UNCHANGED << managerVars, impl, capacity, refillRate, injected, dateNow, clock,
                    onRateLimit, consumed, acq, remoteVars >>

\* a caller calls timeToRefill(cost) on the TokenBucket
TimeToRefill ==
    /\ impl = "local"
    /\ \E cost \in Costs : timeToRefill(cost)
    /\ UNCHANGED << managerVars, impl, capacity, refillRate, injected, dateNow, clock,
                    onRateLimit, consumed, acq, remoteVars >>

\* a caller calls getState() on the TokenBucket
GetState ==
    /\ impl = "local"
    /\ getState
    /\ UNCHANGED << managerVars, impl, capacity, refillRate, injected, dateNow, clock,
                    onRateLimit, consumed, acq, remoteVars >>

\* a caller calls reset() on the TokenBucket
Reset ==
    /\ impl = "local"
    /\ reset
    /\ UNCHANGED << managerVars, impl, capacity, refillRate, injected, dateNow, clock,
                    onRateLimit, consumed, acq, remoteVars >>

\* One turn of acquire's loop at clock reading now, on a bucket holding
\* (tok, lastR): allow(cost) returns; else timeToRefill(cost) gives the wait
\* (a wait <= 0 goes round the loop again, here as a delay already due);
\* else with a timeoutMs the elapsed time plus the wait is tested; else
\* delay(wait) is awaited.  The timer runs on wall-clock time, which an
\* injected clock does not follow: then the delay can end at any time.
acquireTurn(tok, lastR, cost, timeoutMs, start, now) ==
    LET a    == allowOutcome(tok, lastR, cost, now)
        t    == refill(a.tokens, a.lastRefillTimestamp, now)
        wait == timeToRefillMs(t.tokens, cost)
        call == AcquireCall(cost, timeoutMs, start, now, a.ok,
                            IF a.ok \/ a.threw # "no" THEN 0 ELSE wait, a.shown)
    IN  /\ totalRequests' = a.counters.totalRequests
        /\ allowedRequests' = a.counters.allowedRequests
        /\ limitedRequests' = a.counters.limitedRequests
        /\ hook' = a.hook
        /\ IF a.threw # "no" \/ a.ok
           THEN /\ tokens' = a.tokens
                /\ lastRefillTimestamp' = a.lastRefillTimestamp
                /\ acq' = NoAcquire
                /\ last' = Threw(call, a.threw)
           ELSE /\ tokens' = t.tokens
                /\ lastRefillTimestamp' = t.lastRefillTimestamp
                /\ IF wait > 0 /\ timeoutMs # Undefined
                             /\ (now - start) + wait > timeoutMs
                   THEN /\ acq' = NoAcquire
                        /\ last' = Threw(call, "timeout")
                   ELSE /\ acq' = [ pc |-> "waiting", cost |-> cost,
                                    timeoutMs |-> timeoutMs, start |-> start,
                                    due |-> IF injected \/ wait <= 0 THEN 0
                                            ELSE dateNow + wait ]
                        /\ last' = call

\* an acquire that never takes the permanent shortage for one
permanentShortageNever(tok, cost) == FALSE

\* acquire's test on entry: this.refillRate <= 0 && !this.check(cost), on the
\* tokens tok check's refill has left
permanentShortage(tok, cost) == refillRate <= 0 /\ ~checkDecision(tok, cost)

\* TokenBucket.acquire(cost, timeoutMs), up to its first await, return or
\* throw: what the call does to the bucket
acquire(cost, timeoutMs) ==
    LET start == getTime
        c     == refill(tokens, lastRefillTimestamp, start)
    IN  IF permanentShortage(c.tokens, cost)
        THEN /\ tokens' = c.tokens
             /\ lastRefillTimestamp' = c.lastRefillTimestamp
             /\ last' = Threw(AcquireCall(cost, timeoutMs, start, start,
                                          FALSE, 0, 0),
                              "shortage")
             /\ UNCHANGED << totalRequests, allowedRequests,
                             limitedRequests, hook, acq >>
        ELSE IF refillRate <= 0
             THEN acquireTurn(c.tokens, c.lastRefillTimestamp, cost,
                              timeoutMs, start, start)
             ELSE acquireTurn(tokens, lastRefillTimestamp, cost,
                              timeoutMs, start, start)

\* a caller calls acquire(cost, timeoutMs) on the TokenBucket
Acquire ==
    /\ impl = "local"
    /\ acq.pc = "none"
    /\ totalRequests < MaxRequests
    /\ \E cost \in AcquireCosts, timeoutMs \in Timeouts : acquire(cost, timeoutMs)
    /\ UNCHANGED << managerVars, impl, capacity, refillRate, injected, dateNow, clock,
                    onRateLimit, consumed, remoteVars >>

\* the delay of a waiting acquire has passed: the loop takes its next turn
AcquireWakes ==
    /\ impl = "local"
    /\ acq.pc = "waiting"
    /\ injected \/ dateNow >= acq.due
    /\ totalRequests < MaxRequests
    /\ acquireTurn(tokens, lastRefillTimestamp, acq.cost, acq.timeoutMs,
                   acq.start, getTime)
    /\ UNCHANGED << managerVars, impl, capacity, refillRate, injected, dateNow, clock,
                    onRateLimit, consumed, remoteVars >>

\* ------------------------------------------- a TokenBucket with metered callers
\* the clock reading at which the metered bucket is constructed (ms)
ConstructedAt == 500

\* the costs > 0 among the cost arguments
PositiveCosts == { c \in Costs : c > 0 }

\* new TokenBucket(options) at the clock reading ConstructedAt; Date.now()
\* is any reading when a clock is injected
InitEnvelope ==
    /\ InitLocal
    /\ impl = "local"
    /\ getTime = ConstructedAt

\* the injected clock returns a later reading
ClockAdvances ==
    /\ impl = "local" /\ injected
    /\ \E t \in Times : t > clock /\ clock' = t
    /\ UNCHANGED << managerVars, impl, capacity, refillRate, injected, dateNow, tokens,
                    lastRefillTimestamp, totalRequests, allowedRequests,
                    limitedRequests, last, onRateLimit, consumed, hook, acq, remoteVars >>

\* the meter after a call with the given cost: the cost is added when the
\* call was an allow that succeeded
metered(cost) ==
    consumed' = consumed + (IF allowedRequests' = allowedRequests + 1 THEN cost ELSE 0)

\* a metered caller calls allow(cost) with a cost > 0
MeteredAllow ==
    /\ impl = "local"
    /\ totalRequests < MaxRequests
    /\ \E cost \in PositiveCosts : allow(cost) /\ metered(cost)
    /\ UNCHANGED << managerVars, impl, capacity, refillRate, injected, dateNow, clock,
                    onRateLimit, acq, remoteVars >>

\* a metered caller calls acquire(cost, timeoutMs)
MeteredAcquire ==
    /\ impl = "local"
    /\ acq.pc = "none"
    /\ totalRequests < MaxRequests
    /\ \E cost \in AcquireCosts, timeoutMs \in Timeouts :
          acquire(cost, timeoutMs) /\ metered(cost)
    /\ UNCHANGED << managerVars, impl, capacity, refillRate, injected, dateNow, clock,
                    onRateLimit, remoteVars >>

\* the delay of the metered caller's acquire has passed
MeteredAcquireWakes ==
    /\ impl = "local"
    /\ acq.pc = "waiting"
    /\ injected \/ dateNow >= acq.due
    /\ totalRequests < MaxRequests
    /\ acquireTurn(tokens, lastRefillTimestamp, acq.cost, acq.timeoutMs,
                   acq.start, getTime)
    /\ metered(acq.cost)
    /\ UNCHANGED << managerVars, impl, capacity, refillRate, injected, dateNow, clock,
                    onRateLimit, remoteVars >>

\* ------------------------------------------- REDIS_TOKEN_BUCKET_LUA (script)
\* a script taking a key that does not exist as an empty bucket
luaInitEmpty(h, nowMs) ==
    IF h.exists
    THEN [ tokens |-> h.tokens, lastRefill |-> h.lastRefill ]
    ELSE [ tokens |-> 0, lastRefill |-> nowMs ]

\* HMGET, then: if not tokens then tokens = capacity; lastRefill = nowMs end
luaInit(h, nowMs) ==
    IF h.exists
    THEN [ tokens |-> h.tokens, lastRefill |-> h.lastRefill ]
    ELSE [ tokens |-> CapacityUnits, lastRefill |-> nowMs ]

\* the refill block: elapsedMs > 0 adds (elapsedMs / 1000.0) * refillRate,
\* caps at capacity and moves lastRefill to nowMs
luaRefill(tok, lastR, nowMs) ==
    IF nowMs - lastR > 0
    THEN LET t == tok + RefillAmount(nowMs - lastR)
         IN  [ tokens |-> IF t > CapacityUnits THEN CapacityUnits ELSE t,
               lastRefill |-> nowMs ]
    ELSE [ tokens |-> tok, lastRefill |-> lastR ]

\* local allowed = 0; if tokens >= cost then allowed = 1
luaAllowed(tok, cost) == IF tok >= cost THEN 1 ELSE 0

\* the script writing back the tokens it read, consumed or not
luaConsumeKeepsTokens(tok, cost, consume) == tok

\* the script subtracting the cost whether or not it allowed the request
luaConsumeOnDenial(tok, cost, consume) == IF consume THEN tok - cost ELSE tok

\* if tokens >= cost then ... if consume then tokens = tokens - cost end end
luaConsume(tok, cost, consume) ==
    IF luaAllowed(tok, cost) = 1 /\ consume THEN tok - cost ELSE tok

\* a Lua number returned from a script becomes a Redis integer reply: the
\* fraction is dropped (x >= 0 here)
luaToRedisInteger(x) == (x \div TokUnit) * TokUnit

\* a script that leaves the key as it found it
luaHmsetSkipped(h, tok, lastR) == h

\* redis.call("HMSET", key, "tokens", tokens, "lastRefill", lastRefill): the
\* hash the key holds afterwards, whatever it held (h)
luaHmset(h, tok, lastR) == [ exists |-> TRUE, tokens |-> tok, lastRefill |-> lastR ]

\* the whole script, run by the store as one command: the hash it writes
\* with HMSET (numbers are written with 14 significant digits, which holds
\* every value of this model exactly) and the reply it returns; stored is
\* the tokens value written, kept with the reply for reference
luaScript(h, cost, nowMs, consume, returnState) ==
    LET i  == luaInit(h, nowMs)
        r  == luaRefill(i.tokens, i.lastRefill, nowMs)
        a  == luaAllowed(r.tokens, cost)
        t  == luaConsume(r.tokens, cost, consume)
    IN  [ hash  |-> luaHmset(h, t, r.lastRefill),
          reply |-> [ allowed |-> a,
                      tokens |-> luaToRedisInteger(t),
                      lastRefill |-> IF returnState THEN r.lastRefill ELSE 0,
                      stored |-> t ] ]

\* ------------------------------------------------ RedisTokenBucket (remote)
\* the cost each method hands to runScript
scriptCost(op, cost) == IF op \in { "allow", "check" } THEN cost ELSE 0

\* runScript dropping the consume option
scriptConsumeAlways(op) == TRUE

\* runScript's consume: options?.consume ?? true
scriptConsume(op) == op = "allow"

\* runScript's returnState: false for allow without an onRateLimit hook
scriptReturnState(op) == op = "getState"

\* RedisTokenBucket.allow / check after the reply: allowed === 1
remoteAllowed(reply) == reply.allowed = 1

\* RedisTokenBucket.timeToRefill after the reply
remoteTimeToRefillMs(tok, cost) ==
    IF tok >= cost THEN 0
    ELSE IF refillRate = 0 THEN Infinity
    ELSE CeilDiv((cost - tok) * 1000, refillRate * TokUnit)

\* RedisTokenBucket.getState: Number(Number(tokens).toFixed(4))
remoteShown(tok) == toFixed4(tok)

\* what the method in flight at instance i returns on the reply it holds
methodResult(i) ==
    [ ok    |-> IF i.op \in { "allow", "check" } THEN remoteAllowed(i.reply) ELSE TRUE,
      wait  |-> IF i.op = "timeToRefill"
                THEN remoteTimeToRefillMs(i.reply.tokens, i.cost) ELSE 0,
      shown |-> IF i.op = "getState" THEN remoteShown(i.reply.tokens) ELSE 0 ]

\* RedisTokenBucket constructor: if (options.capacity <= 0 ||
\* options.refillRate < 0) throw
remoteInvalidOptions(c, r) == c <= 0 \/ r < 0

\* new RedisTokenBucket(options) in each process: throws on invalid options;
\* the key has never been written
\* new RedisTokenBucket(options) on a key never written, ttlSeconds among
\* ttls (0: the option is absent) and the callers' meter at m
InitRemoteMetered(ttls, m) ==
    /\ \E c \in RemoteConfigs \cup BadConfigs :
          capacity = c.capacity /\ refillRate = c.refillRate
    /\ impl = IF remoteInvalidOptions(capacity, refillRate)
              THEN "none" ELSE "remote"
    /\ injected = FALSE
    /\ dateNow = 0
    /\ clock = 0
    /\ tokens = 0
    /\ lastRefillTimestamp = 0
    /\ totalRequests = 0
    /\ allowedRequests = 0
    /\ limitedRequests = 0
    /\ last = Call("none", 0, 0, TRUE, 0, 0)
    /\ onRateLimit = "none"
    /\ hook = 0
    /\ consumed = m
    /\ acq = NoAcquire
    /\ redis = Absent
    /\ inst = [ p \in Insts |-> NewInstance ]
    /\ deleted = FALSE
    /\ ttlSeconds \in ttls
    /\ expireAt = Undefined
    /\ NoManager

\* the instances built without ttlSeconds
InitRemote == InitRemoteMetered({0}, 0)

\* a method is entered and runs up to its await: runScript reads the clock
\* (this instance's getTime() returns now) and sends EVAL
\* (the instance record once the command is sent)
sentBy(i, op, cost, now) ==
    [ i EXCEPT !.pc = "sent", !.op = op, !.cost = cost, !.now = now,
               !.totalRequests = IF op = "allow" THEN @ + 1 ELSE @ ]

Request(p, op, cost, now) ==
    inst' = [ inst EXCEPT ![p] = sentBy(@, op, cost, now) ]

\* RedisTokenBucket.allow(cost), up to the await
RemoteAllow ==
    /\ impl = "remote"
    /\ \E p \in Insts, cost \in RemoteCosts, now \in Times :
        /\ inst[p].pc = "idle"
        /\ inst[p].totalRequests < MaxRequests
        /\ Request(p, "allow", cost, now)
    /\ UNCHANGED << managerVars, impl, capacity, refillRate, localVars, redis, deleted,
                    ttlSeconds, expireAt >>

\* RedisTokenBucket.check(cost), up to the await
RemoteCheck ==
    /\ impl = "remote"
    /\ \E p \in Insts, cost \in RemoteCosts, now \in Times :
        /\ inst[p].pc = "idle"
        /\ Request(p, "check", cost, now)
    /\ UNCHANGED << managerVars, impl, capacity, refillRate, localVars, redis, deleted,
                    ttlSeconds, expireAt >>

\* RedisTokenBucket.timeToRefill(cost), up to the await
RemoteTimeToRefill ==
    /\ impl = "remote"
    /\ \E p \in Insts, cost \in RemoteCosts, now \in Times :
        /\ inst[p].pc = "idle"
        /\ Request(p, "timeToRefill", cost, now)
    /\ UNCHANGED << managerVars, impl, capacity, refillRate, localVars, redis, deleted,
                    ttlSeconds, expireAt >>

\* RedisTokenBucket.getState(), up to the await
RemoteGetState ==
    /\ impl = "remote"
    /\ \E p \in Insts, now \in Times :
        /\ inst[p].pc = "idle"
        /\ Request(p, "getState", 0, now)
    /\ UNCHANGED << managerVars, impl, capacity, refillRate, localVars, redis, deleted,
                    ttlSeconds, expireAt >>

\* RedisTokenBucket.reset(), up to the await: sends DEL
RemoteReset ==
    /\ impl = "remote"
    /\ \E p \in Insts :
        /\ inst[p].pc = "idle"
        /\ Request(p, "reset", 0, 0)
    /\ UNCHANGED << managerVars, impl, capacity, refillRate, localVars, redis, deleted,
                    ttlSeconds, expireAt >>

\* runScript's EVAL for the method in flight at instance i, run by the store
\* on the hash h: the hash it leaves and its reply
runScript(i, h) ==
    luaScript(h, scriptCost(i.op, i.cost), i.now, scriptConsume(i.op),
              scriptReturnState(i.op))

\* the instance record once the store has replied (runScript has no use for
\* its clock reading once the command is sent)
repliedTo(i, reply) == [ i EXCEPT !.pc = "replied", !.now = 0, !.reply = reply ]

\* the instance record once the method has returned on the reply it holds
returnedTo(i) ==
    [ i EXCEPT !.pc = "idle", !.op = "none", !.cost = 0, !.now = 0,
               !.reply = NoReply,
               !.allowedRequests =
                   IF i.op = "allow" /\ methodResult(i).ok THEN @ + 1 ELSE @,
               !.limitedRequests =
                   IF i.op = "allow" /\ ~methodResult(i).ok THEN @ + 1 ELSE @ ]

\* the store's clock has reached the key's expiry
keyExpired(at, serverNow) == at # Undefined /\ serverNow >= at

\* the hash a command finds under the key: an expired key does not exist
keyFound(h, at, serverNow) == IF keyExpired(at, serverNow) THEN Absent ELSE h

\* the script's EXPIRE: with ttlSeconds > 0 the key expires ttlSeconds after
\* this run, otherwise the expiry is the one the key has (none on a key
\* that HMSET has just created)
luaExpire(ttl, at, serverNow) ==
    IF ttl > 0 THEN serverNow + ttl * 1000
    ELSE IF keyExpired(at, serverNow) THEN Undefined ELSE at

\* the store runs the script of the EVAL pending for instance p, as one
\* command, at the store's time dateNow
redisEval(p) ==
    /\ inst[p].pc = "sent"
    /\ inst[p].op # "reset"
    /\ LET out == runScript(inst[p], keyFound(redis, expireAt, dateNow))
       IN  /\ redis' = out.hash
           /\ inst' = [ inst EXCEPT ![p] = repliedTo(@, out.reply) ]
    /\ expireAt' = luaExpire(ttlSeconds, expireAt, dateNow)

\* the store runs the script of one pending EVAL
RedisEval ==
    /\ impl = "remote"
    /\ \E p \in Insts : redisEval(p)
    /\ UNCHANGED << managerVars, impl, capacity, refillRate, localVars, deleted,
                    ttlSeconds >>

\* a reset that deletes nothing (a DEL sent for another key)
redisDelKeepsHash(h) == h

\* reset: redis.del(this.key), or EVAL of redis.call("DEL", KEYS[1])
redisDel(h) == Absent

\* the store runs one pending DEL
RedisDel ==
    /\ impl = "remote"
    /\ \E p \in Insts :
        /\ inst[p].pc = "sent"
        /\ inst[p].op = "reset"
        /\ redis' = redisDel(redis)
        /\ deleted' = TRUE
        /\ expireAt' = Undefined
        /\ inst' = [ inst EXCEPT ![p] = repliedTo(@, NoReply) ]
    /\ UNCHANGED << managerVars, impl, capacity, refillRate, localVars, ttlSeconds >>

\* the awaited reply arrives and the method runs to its return
RemoteReturn ==
    /\ impl = "remote"
    /\ \E p \in Insts :
        /\ inst[p].pc = "replied"
        /\ inst' = [ inst EXCEPT ![p] = returnedTo(@) ]
    /\ UNCHANGED << managerVars, impl, capacity, refillRate, localVars, redis, deleted,
                    ttlSeconds, expireAt >>

\* a method catching the failure of the store and reporting a denial
rejectedAsDenial(i) ==
    [ i EXCEPT !.pc = "idle", !.op = "none", !.cost = 0, !.now = 0,
               !.reply = NoReply,
               !.limitedRequests = IF i.op = "allow" THEN @ + 1 ELSE @ ]

\* the instance record once the awaited eval/evalsha/del has rejected:
\* neither runScript nor the methods catch, so the method rejects with the
\* store's error, having counted nothing but allow's totalRequests
rejectedTo(i) ==
    [ i EXCEPT !.pc = "threw", !.op = "none", !.cost = 0, !.now = 0,
               !.reply = NoReply ]

\* the instances whose connection to the store can fail
FailingInsts == { "A" }

\* the store or the transport fails one pending command: the command did
\* not run, or it ran and its reply was lost; the await rejects
RedisFails ==
    /\ impl = "remote"
    /\ \E p \in FailingInsts, ran \in BOOLEAN :
        /\ inst[p].pc = "sent"
        /\ redis' = IF ~ran THEN redis
                    ELSE IF inst[p].op = "reset" THEN redisDel(redis)
                    ELSE runScript(inst[p], keyFound(redis, expireAt, dateNow)).hash
        /\ deleted' = (deleted \/ (ran /\ inst[p].op = "reset"))
        /\ expireAt' = IF ~ran THEN expireAt
                       ELSE IF inst[p].op = "reset" THEN Undefined
                       ELSE luaExpire(ttlSeconds, expireAt, dateNow)
        /\ inst' = [ inst EXCEPT ![p] = rejectedTo(@) ]
    /\ UNCHANGED << managerVars, impl, capacity, refillRate, localVars, ttlSeconds >>

\* the caller has handled the error of its call
RemoteCaught ==
    /\ impl = "remote"
    /\ \E p \in Insts :
        /\ inst[p].pc = "threw"
        /\ inst' = [ inst EXCEPT ![p] = [ @ EXCEPT !.pc = "idle" ] ]
    /\ UNCHANGED << managerVars, impl, capacity, refillRate, localVars, redis, deleted,
                    ttlSeconds, expireAt >>

\* ------------------------------------------- a key with an idle expiry
\* RedisTokenBucket instances built with or without ttlSeconds, their
\* clocks following the store's (dateNow), their allow calls metered: the
\* meter holds the tokens granted on the key and the time of its first use.
\* ttlSeconds options (0: absent)
TtlSeconds == { 0, 1, 2 }

\* the meter of a key never used
NoUse == [ granted |-> 0, firstUse |-> Undefined ]

InitRemoteExpiry == InitRemoteMetered(TtlSeconds, NoUse)

\* time passes, at the store and at the instances alike
RedisTimePasses ==
    /\ impl = "remote"
    /\ \E t \in Times : t > dateNow /\ dateNow' = t
    /\ UNCHANGED << managerVars, impl, capacity, refillRate, injected, clock, tokens,
                    lastRefillTimestamp, totalRequests, allowedRequests,
                    limitedRequests, last, onRateLimit, hook, consumed, acq,
                    remoteVars >>

\* RedisTokenBucket.allow(cost), up to the await, getTime() reading the time
RemoteAllowOnTime ==
    /\ impl = "remote"
    /\ \E p \in Insts, cost \in RemoteCosts :
        /\ inst[p].pc = "idle"
        /\ inst[p].totalRequests < MaxRequests
        /\ Request(p, "allow", cost, dateNow)
    /\ UNCHANGED << managerVars, impl, capacity, refillRate, localVars, redis, deleted,
                    ttlSeconds, expireAt >>

\* RedisTokenBucket.check(cost), up to the await, getTime() reading the time
RemoteCheckOnTime ==
    /\ impl = "remote"
    /\ \E p \in Insts, cost \in RemoteCosts :
        /\ inst[p].pc = "idle"
        /\ Request(p, "check", cost, dateNow)
    /\ UNCHANGED << managerVars, impl, capacity, refillRate, localVars, redis, deleted,
                    ttlSeconds, expireAt >>

\* the meter after the script of instance p's command has run: the cost of
\* an allow the script grants, and the now of the first script run
meteredRun(p) ==
    consumed' =
        [ granted  |-> consumed.granted +
                       (IF inst[p].op = "allow" /\ inst'[p].reply.allowed = 1
                        THEN inst[p].cost ELSE 0),
          firstUse |-> IF consumed.firstUse = Undefined THEN inst[p].now
                       ELSE consumed.firstUse ]

\* the store runs the script of one pending EVAL, metered
MeteredRedisEval ==
    /\ impl = "remote"
    /\ \E p \in Insts : redisEval(p) /\ meteredRun(p)
    /\ UNCHANGED << managerVars, impl, capacity, refillRate, injected, dateNow, clock,
                    tokens, lastRefillTimestamp, totalRequests, allowedRequests,
                    limitedRequests, last, onRateLimit, hook, acq, deleted,
                    ttlSeconds >>

\* ----------------------------------- instances whose clocks differ, any cost
\* cost arguments of allow, in units: allow passes its argument to the
\* script as it is, a negative one included
SkewCosts == { 0 - TokUnit, TokUnit }

\* RedisTokenBucket.allow(cost), up to the await, for any cost and any
\* reading of the instance's clock
RemoteAllowAnyCost ==
    /\ impl = "remote"
    /\ \E p \in Insts, cost \in SkewCosts, now \in Times :
        /\ inst[p].pc = "idle"
        /\ inst[p].totalRequests < MaxRequests
        /\ Request(p, "allow", cost, now)
    /\ UNCHANGED << managerVars, impl, capacity, refillRate, localVars, redis, deleted,
                    ttlSeconds, expireAt >>

\* --------------------------------- one caller, both buckets, the same calls
\* A TokenBucket and a RedisTokenBucket (instance "A", on a key never
\* written) built with the same capacity, refillRate and clock.  One caller
\* makes each call on both, awaiting the RedisTokenBucket's result: nothing
\* runs between the sending of its command and its return.  The instance
\* record keeps the method and the reply of the call that returned.
InitPair ==
    /\ impl = "pair"
    /\ \E c \in Configs : capacity = c.capacity /\ refillRate = c.refillRate
    /\ injected \in BOOLEAN
    /\ dateNow \in Times
    /\ clock \in (IF injected THEN Times ELSE {0})
    /\ tokens = CapacityUnits
    /\ lastRefillTimestamp = dateNow
    /\ totalRequests = 0
    /\ allowedRequests = 0
    /\ limitedRequests = 0
    /\ last = Call("new", 0, getTime, TRUE, 0, 0)
    /\ onRateLimit = "none"
    /\ hook = 0
    /\ consumed = 0
    /\ acq = NoAcquire
    /\ redis = Absent
    /\ inst = [ p \in Insts |-> NewInstance ]
    /\ deleted = FALSE
    /\ ttlSeconds = 0
    /\ expireAt = Undefined
    /\ NoManager

\* instance p's method op(cost), from its call to its return, with the
\* clock reading now
remoteCall(p, op, cost, now) ==
    LET sent    == sentBy(inst[p], op, cost, now)
        out     == IF op = "reset"
                   THEN [ hash |-> redisDel(redis), reply |-> NoReply ]
                   ELSE runScript(sent, keyFound(redis, expireAt, dateNow))
        replied == repliedTo(sent, out.reply)
        done    == returnedTo(replied)
    IN  /\ redis' = out.hash
        /\ deleted' = (deleted \/ op = "reset")
        /\ expireAt' = IF op = "reset" THEN Undefined
                       ELSE luaExpire(ttlSeconds, expireAt, dateNow)
        /\ inst' = [ inst EXCEPT ![p] =
                       [ replied EXCEPT
                           !.pc = "returned",
                           !.allowedRequests = done.allowedRequests,
                           !.limitedRequests = done.limitedRequests ] ]

PairAllow ==
    /\ impl = "pair"
    /\ totalRequests < MaxRequests
    /\ \E cost \in RemoteCosts :
          allow(cost) /\ remoteCall("A", "allow", cost, getTime)
    /\ UNCHANGED << managerVars, impl, capacity, refillRate, injected, dateNow, clock,
                    onRateLimit, consumed, acq, ttlSeconds >>

PairCheck ==
    /\ impl = "pair"
    /\ \E cost \in RemoteCosts :
          check(cost) /\ remoteCall("A", "check", cost, getTime)
    /\ UNCHANGED << managerVars, impl, capacity, refillRate, injected, dateNow, clock,
                    onRateLimit, consumed, acq, ttlSeconds >>

PairTimeToRefill ==
    /\ impl = "pair"
    /\ \E cost \in RemoteCosts :
          timeToRefill(cost) /\ remoteCall("A", "timeToRefill", cost, getTime)
    /\ UNCHANGED << managerVars, impl, capacity, refillRate, injected, dateNow, clock,
                    onRateLimit, consumed, acq, ttlSeconds >>

PairGetState ==
    /\ impl = "pair"
    /\ getState /\ remoteCall("A", "getState", 0, getTime)
    /\ UNCHANGED << managerVars, impl, capacity, refillRate, injected, dateNow, clock,
                    onRateLimit, consumed, acq, ttlSeconds >>

PairReset ==
    /\ impl = "pair"
    /\ reset /\ remoteCall("A", "reset", 0, 0)
    /\ UNCHANGED << managerVars, impl, capacity, refillRate, injected, dateNow, clock,
                    onRateLimit, consumed, acq, ttlSeconds >>

\* ------------------------------------------------------ TokenBucketManager
\* (capacity, refillRate) pairs of the buckets the factory constructs
ManagerConfigs == { c \in Configs : c.capacity <= 2 }

\* the hooks of a manager: that of the buckets its factory constructs and
\* its own (a hook returns, throws, or there is none)
ManagerHooks ==
    { [ bucket |-> "none",    manager |-> "none" ],
      [ bucket |-> "none",    manager |-> "returns" ],
      [ bucket |-> "none",    manager |-> "throws" ],
      [ bucket |-> "returns", manager |-> "returns" ],
      [ bucket |-> "throws",  manager |-> "returns" ] }

\* TokenBucketManager.now(): Date.now()
managerNow == dateNow

\* the factory of the README: key => new TokenBucket({ capacity, refillRate }),
\* a full bucket on the clock Date.now(); the factory can give its buckets a
\* hook of their own (onRateLimit, invocations counted in hook); the id
\* tells the buckets constructed for one key apart
createBucket(key) ==
    [ id |-> factoryCalls[key] + 1, tokens |-> CapacityUnits,
      lastRefillTimestamp |-> dateNow, totalRequests |-> 0,
      allowedRequests |-> 0, limitedRequests |-> 0 ]

\* an entry taken as expired already when now - lastAccess equals ttlMs
expiredAtTtl(e, now) == ttlMs # Undefined /\ now - e.lastAccess >= ttlMs

\* get and cleanup: this.ttlMs !== undefined, now - entry.lastAccess > this.ttlMs
expired(e, now) == ttlMs # Undefined /\ now - e.lastAccess > ttlMs

\* a get that does not stamp the entry it finds
getKeepsLastAccess(key) ==
    LET now  == managerNow
        e    == buckets[key]
        live == e.present /\ ~expired(e, now)
    IN  [ entry   |-> IF live THEN e
                      ELSE [ present |-> TRUE, lastAccess |-> now,
                             bucket |-> createBucket(key) ],
          created |-> ~live ]

\* a get that has the factory construct a bucket on every call
getCreatesAgain(key) ==
    [ entry   |-> [ present |-> TRUE, lastAccess |-> managerNow,
                    bucket |-> createBucket(key) ],
      created |-> TRUE ]

\* TokenBucketManager.get(key): the entry it leaves under key (whose bucket
\* it returns) and whether it called the factory
get(key) ==
    LET now  == managerNow
        e    == buckets[key]
        live == e.present /\ ~expired(e, now)
    IN  [ entry   |-> IF live THEN [ e EXCEPT !.lastAccess = now ]
                      ELSE [ present |-> TRUE, lastAccess |-> now,
                             bucket |-> createBucket(key) ],
          created |-> ~live ]

\* TokenBucket.refill on the bucket b of an entry
bucketRefill(b) ==
    LET r == refill(b.tokens, b.lastRefillTimestamp, dateNow)
    IN  [ b EXCEPT !.tokens = r.tokens,
                   !.lastRefillTimestamp = r.lastRefillTimestamp ]

\* TokenBucket.allow(cost) on the bucket b of an entry: the bucket it
\* leaves, whether the bucket's own hook was invoked (passed getState(),
\* which refills once more) and whether the error of that hook leaves allow
bucketAllow(b, cost) ==
    LET r      == bucketRefill(b)
        ok     == allowDecision(r.tokens, cost)
        called == hookInvoked(ok)
        c      == [ r EXCEPT
                      !.tokens = allowTokens(r.tokens, cost),
                      !.totalRequests = @ + 1,
                      !.allowedRequests = IF ok THEN @ + 1 ELSE @,
                      !.limitedRequests = IF ok THEN @ ELSE @ + 1 ]
    IN  [ ok     |-> ok,
          bucket |-> IF called THEN bucketRefill(c) ELSE c,
          called |-> called,
          threw  |-> IF called /\ onRateLimit = "throws" THEN "hook" ELSE "no" ]

\* the manager's call leaves entry e under key, having called the factory
\* or not
Resolved(key, e, created) ==
    /\ buckets' = [ buckets EXCEPT ![key] = e ]
    /\ factoryCalls' = [ factoryCalls EXCEPT ![key] = IF created THEN @ + 1 ELSE @ ]

\* new TokenBucketManager({ createBucket, ttlMs, onRateLimit }), its callers'
\* meter reading m
InitManagerMetered(m) ==
    /\ impl = "manager"
    /\ \E c \in ManagerConfigs : capacity = c.capacity /\ refillRate = c.refillRate
    /\ injected = FALSE
    /\ dateNow \in ManagerTimes
    /\ clock = 0
    /\ tokens = 0
    /\ lastRefillTimestamp = 0
    /\ totalRequests = 0
    /\ allowedRequests = 0
    /\ limitedRequests = 0
    /\ last = Call("none", 0, 0, TRUE, 0, 0)
    /\ \E h \in ManagerHooks : onRateLimit = h.bucket /\ managerOnRateLimit = h.manager
    /\ hook = 0
    /\ consumed = m
    /\ acq = NoAcquire
    /\ redis = Absent
    /\ inst = [ p \in Insts |-> NewInstance ]
    /\ deleted = FALSE
    /\ ttlSeconds = 0
    /\ expireAt = Undefined
    /\ ttlMs \in Ttls
    /\ managerHook = 0
    /\ buckets = [ k \in Keys |-> NoEntry ]
    /\ factoryCalls = [ k \in Keys |-> 0 ]
    /\ mlast = ManagerCall("new", "a", 0, TRUE, 0, 0, "no")

\* new TokenBucketManager({ createBucket, ttlMs, onRateLimit })
InitManager == InitManagerMetered(0)

\* wall-clock time passes in the program of the manager
ManagerTimePasses ==
    /\ impl = "manager"
    /\ \E t \in ManagerTimes : t > dateNow /\ dateNow' = t
    /\ UNCHANGED << managerVars, impl, capacity, refillRate, injected, clock,
                    tokens, lastRefillTimestamp, totalRequests, allowedRequests,
                    limitedRequests, last, onRateLimit, consumed, hook, acq, remoteVars >>

\* TokenBucketManager.allow: if (!allowed && this.onRateLimit), reached
\* when bucket.allow has returned
managerHookInvoked(a) ==
    ~a.ok /\ a.threw = "no" /\ managerOnRateLimit # "none"

\* TokenBucketManager.allow(key, cost): get, bucket.allow, and on a denial
\* the manager's hook, passed bucket.getState(); no error is caught: that of
\* the bucket's hook leaves allow before the manager's hook is reached
\* ("hook"), that of the manager's hook leaves it after ("managerHook")
managerAllow(key, cost) ==
    LET g      == get(key)
        a      == bucketAllow(g.entry.bucket, cost)
        called == managerHookInvoked(a)
        s      == bucketRefill(a.bucket)
    IN  /\ g.entry.bucket.totalRequests < MaxRequests
        /\ Resolved(key, [ g.entry EXCEPT !.bucket = IF called THEN s ELSE a.bucket ],
                    g.created)
        /\ hook' = IF a.called THEN hook + 1 ELSE hook
        /\ managerHook' = IF called THEN managerHook + 1 ELSE managerHook
        /\ mlast' = ManagerCall("allow", key, cost, a.ok, 0,
                                IF called THEN toFixed4(s.tokens) ELSE 0,
                                IF a.threw # "no" THEN a.threw
                                ELSE IF called /\ managerOnRateLimit = "throws"
                                THEN "managerHook" ELSE "no")

\* a caller calls allow(key, cost) on the TokenBucketManager
ManagerAllow ==
    /\ impl = "manager"
    /\ \E key \in Keys, cost \in ManagerCosts : managerAllow(key, cost)
    /\ UNCHANGED << ttlMs, managerOnRateLimit, impl, capacity, refillRate,
                    injected, dateNow, clock, tokens, lastRefillTimestamp,
                    totalRequests, allowedRequests, limitedRequests, last,
                    onRateLimit, consumed, acq, remoteVars >>

\* no identifier has been used nor granted anything
NoMeter == [ k \in Keys |-> [ granted |-> 0, firstUse |-> Undefined ] ]

\* the meter after allow(key, cost): the first use of key is stamped and the
\* cost is added when the call returned true
meteredKey(key, cost) ==
    consumed' = [ consumed EXCEPT ![key] =
                    [ granted  |-> @.granted + (IF mlast'.ok THEN cost ELSE 0),
                      firstUse |-> IF @.firstUse = Undefined THEN managerNow
                                   ELSE @.firstUse ] ]

\* a metered caller calls allow(key, cost) on the TokenBucketManager
MeteredManagerAllow ==
    /\ impl = "manager"
    /\ \E key \in Keys, cost \in ManagerCosts :
          managerAllow(key, cost) /\ meteredKey(key, cost)
    /\ UNCHANGED << ttlMs, managerOnRateLimit, impl, capacity, refillRate,
                    injected, dateNow, clock, tokens, lastRefillTimestamp,
                    totalRequests, allowedRequests, limitedRequests, last,
                    onRateLimit, acq, remoteVars >>

\* TokenBucketManager.check(key, cost)
ManagerCheck ==
    /\ impl = "manager"
    /\ \E key \in Keys, cost \in ManagerCosts :
        LET g == get(key)
            b == bucketRefill(g.entry.bucket)
        IN  /\ Resolved(key, [ g.entry EXCEPT !.bucket = b ], g.created)
            /\ mlast' = ManagerCall("check", key, cost,
                                    checkDecision(b.tokens, cost),
                                    0, 0, "no")
    /\ UNCHANGED << ttlMs, managerOnRateLimit, managerHook, impl, capacity,
                    refillRate, localVars, remoteVars >>

\* TokenBucketManager.timeToRefill(key, cost)
ManagerTimeToRefill ==
    /\ impl = "manager"
    /\ \E key \in Keys, cost \in ManagerCosts :
        LET g == get(key)
            b == bucketRefill(g.entry.bucket)
        IN  /\ Resolved(key, [ g.entry EXCEPT !.bucket = b ], g.created)
            /\ mlast' = ManagerCall("timeToRefill", key, cost, TRUE,
                                    timeToRefillMs(b.tokens, cost), 0, "no")
    /\ UNCHANGED << ttlMs, managerOnRateLimit, managerHook, impl, capacity,
                    refillRate, localVars, remoteVars >>

\* TokenBucketManager.getState(key)
ManagerGetState ==
    /\ impl = "manager"
    /\ \E key \in Keys :
        LET g == get(key)
            b == bucketRefill(g.entry.bucket)
        IN  /\ Resolved(key, [ g.entry EXCEPT !.bucket = b ], g.created)
            /\ mlast' = ManagerCall("getState", key, 0, TRUE, 0,
                                    toFixed4(b.tokens), "no")
    /\ UNCHANGED << ttlMs, managerOnRateLimit, managerHook, impl, capacity,
                    refillRate, localVars, remoteVars >>

\* a cleanup deleting every entry when a ttlMs is set
cleanupDeletesAll ==
    [ k \in Keys |-> IF ttlMs # Undefined THEN NoEntry ELSE buckets[k] ]

\* TokenBucketManager.cleanup(): nothing without a ttlMs; else every entry
\* with now - lastAccess > ttlMs is deleted.  The map it leaves.
cleanup ==
    [ k \in Keys |->
        IF buckets[k].present /\ expired(buckets[k], managerNow)
        THEN NoEntry ELSE buckets[k] ]

\* a caller calls cleanup() on the TokenBucketManager
ManagerCleanup ==
    /\ impl = "manager"
    /\ buckets' = cleanup
    /\ mlast' = ManagerCall("cleanup", "a", 0, TRUE, 0, 0, "no")
    /\ UNCHANGED << ttlMs, managerOnRateLimit, managerHook, factoryCalls, impl,
                    capacity, refillRate, localVars, remoteVars >>

\* ------------------------------------------------------------ specification
Init == InitLocal \/ InitRemote

NextLocal ==
    \/ ClockReturns
    \/ DateNowAdvances
    \/ Allow
    \/ Check
    \/ TimeToRefill
    \/ GetState
    \/ Reset

NextRemote ==
    \/ RemoteAllow
    \/ RemoteCheck
    \/ RemoteTimeToRefill
    \/ RemoteGetState
    \/ RemoteReset
    \/ RedisEval
    \/ RedisDel
    \/ RemoteReturn

Next == NextLocal \/ NextRemote

\* a TokenBucket, a set of RedisTokenBucket instances on one key, or either
\* the TokenBucket with a caller of acquire
NextAcquire == NextLocal \/ Acquire \/ AcquireWakes

SpecAcquire == InitLocal /\ [][NextAcquire]_vars

\* the TokenBucket on a clock that never goes back, never reset, its callers
\* metered and calling with costs > 0
NextEnvelope ==
    \/ ClockAdvances
    \/ DateNowAdvances
    \/ MeteredAllow
    \/ MeteredAcquire
    \/ MeteredAcquireWakes
    \/ Check
    \/ TimeToRefill
    \/ GetState

SpecEnvelope == InitEnvelope /\ [][NextEnvelope]_vars

\* the TokenBucket with a caller who lets the wait of timeToRefill pass, the
\* clock moving in no other way
NextWait ==
    \/ WaitPasses
    \/ Allow
    \/ TimeToRefill

SpecWait == InitLocal /\ [][NextWait]_vars

\* one caller making the same calls on a TokenBucket and a RedisTokenBucket
NextPair ==
    \/ ClockReturns
    \/ DateNowAdvances
    \/ PairAllow
    \/ PairCheck
    \/ PairTimeToRefill
    \/ PairGetState
    \/ PairReset

SpecPair == InitPair /\ [][NextPair]_vars

\* the RedisTokenBucket instances with a store that can fail
NextStoreFails == NextRemote \/ RedisFails \/ RemoteCaught

SpecStoreFails == InitRemote /\ [][NextStoreFails]_vars

\* the TokenBucketManager
NextManager ==
    \/ ManagerTimePasses
    \/ ManagerAllow
    \/ ManagerCheck
    \/ ManagerTimeToRefill
    \/ ManagerGetState
    \/ ManagerCleanup

SpecManager == InitManager /\ [][NextManager]_vars

\* the TokenBucketManager with its allow callers metered
NextManagerEnvelope ==
    \/ ManagerTimePasses
    \/ MeteredManagerAllow
    \/ ManagerCheck
    \/ ManagerTimeToRefill
    \/ ManagerGetState
    \/ ManagerCleanup

InitManagerEnvelope == InitManagerMetered(NoMeter)

SpecManagerEnvelope == InitManagerEnvelope /\ [][NextManagerEnvelope]_vars

SpecLocal == InitLocal /\ [][NextLocal]_vars

SpecRemote == InitRemote /\ [][NextRemote]_vars

\* the RedisTokenBucket instances on a key that can expire, never reset
NextRemoteExpiry ==
    \/ RedisTimePasses
    \/ RemoteAllowOnTime
    \/ RemoteCheckOnTime
    \/ MeteredRedisEval
    \/ RemoteReturn

SpecRemoteExpiry == InitRemoteExpiry /\ [][NextRemoteExpiry]_vars

\* the RedisTokenBucket instances reading clocks that differ, on a key that
\* is never reset and has no expiry
NextRemoteSkew ==
    \/ RemoteAllowAnyCost
    \/ RemoteCheck
    \/ RemoteTimeToRefill
    \/ RemoteGetState
    \/ RedisEval
    \/ RemoteReturn

SpecRemoteSkew == InitRemote /\ [][NextRemoteSkew]_vars

Spec == Init /\ [][Next]_vars

\* ------------------------------------------------------------------ claims
\* min(capacity, t0 + D * refillRate) for D = (now - lastR) / 1000 seconds
\* when the clock has moved past lastR, and t0 otherwise
ExpectedTokens(tok, lastR, now) ==
    IF now > lastR
    THEN Min(CapacityUnits, tok + ((now - lastR) * refillRate * TokUnit) \div 1000)
    ELSE tok

\* the step is a call of the TokenBucket method op (the clocks do not move
\* in a call)
LocalCall(op) ==
    /\ impl = "local"
    /\ last'.op = op
    /\ clock' = clock
    /\ dateNow' = dateNow

\* the request counters of the TokenBucket
Counters == << totalRequests, allowedRequests, limitedRequests >>

\* C1: for a TokenBucket, 0 <= tokens <= capacity at every point where the
\* state is read (the field after every call, and the tokens getState shows),
\* whatever costs are passed and whatever the clock returns.
C1_TokensWithinCapacity ==
    impl = "local" =>
        /\ 0 <= tokens /\ tokens <= CapacityUnits
        /\ last.op = "getState" => (0 <= last.shown /\ last.shown <= CapacityUnits)

\* C3: allow(cost) refills first, returns true exactly when the refilled
\* tokens are >= cost, and then leaves the refilled tokens less cost.
C3_AllowRefillsDecidesConsumes ==
    [][ totalRequests' = totalRequests + 1 =>
          LET refilled == ExpectedTokens(tokens, lastRefillTimestamp, getTime)
          IN  /\ last'.op = "allow"
              /\ last'.ok = (refilled >= last'.cost)
              /\ last'.ok => tokens' = refilled - last'.cost ]_vars

\* C3 witness: allow(1) granted at 500 ms from a bucket of 10 drained at 0 and
\* refilled to 2.5 tokens, leaving 1.5
C3_Witness ==
    /\ impl = "local"
    /\ last.op = "allow" /\ last.ok /\ last.cost = TokUnit
    /\ allowedRequests = 2
    /\ capacity = 10 /\ refillRate = 5
    /\ last.now = 500 /\ lastRefillTimestamp = 500
    /\ 2 * tokens = 3 * TokUnit

\* C7: a TokenBucket built with an injected clock is created full with
\* lastRefill equal to that clock's reading at creation.
C7_CreatedAtInjectedClock ==
    (impl = "local" /\ injected /\ last.op = "new") =>
        /\ tokens = CapacityUnits
        /\ lastRefillTimestamp = last.now

\* C9: the lastRefill of a TokenBucket never moves backward, whatever is
\* called and whatever the clock returns.
C9_LastRefillNeverBackward ==
    [][ impl = "local" => lastRefillTimestamp' >= lastRefillTimestamp ]_vars

\* C10: reset() leaves tokens = capacity, lastRefill = the clock reading and
\* the request counters as they were, and the allow(c) that follows it with
\* c <= capacity returns true.
C10_ResetFillsAndStamps ==
    [][ /\ LocalCall("reset") =>
              /\ tokens' = CapacityUnits
              /\ lastRefillTimestamp' = getTime
              /\ Counters' = Counters
        /\ (impl = "local" /\ last.op = "reset" /\ last'.op = "allow"
                /\ last'.cost <= CapacityUnits) => last'.ok ]_vars

\* C10 witness: a reset of a drained bucket that has counted a denial, at a
\* clock reading other than the one of the last refill before it
C10_Witness ==
    /\ impl = "local"
    /\ last.op = "reset"
    /\ allowedRequests = 1 /\ limitedRequests = 1
    /\ tokens = CapacityUnits
    /\ lastRefillTimestamp = last.now
    /\ lastRefillTimestamp = 500

\* ---------------------------------------------------- claims on the remote
\* the tokens and lastRefill the atomic unit starts from at reading now: a
\* key that was never written counts as full, refilled at now
StoreTokens(h) == IF h.exists THEN h.tokens ELSE CapacityUnits

StoreLastRefill(h, now) == IF h.exists THEN h.lastRefill ELSE now

\* the sequential refill-decide-consume-write unit on the stored state h
SeqUnit(h, cost, now, consume) ==
    LET l0 == StoreLastRefill(h, now)
        r  == ExpectedTokens(StoreTokens(h), l0, now)
    IN  [ allowed |-> r >= cost,
          hash |-> [ exists |-> TRUE,
                     tokens |-> IF r >= cost /\ consume THEN r - cost ELSE r,
                     lastRefill |-> IF now > l0 THEN now ELSE l0 ] ]

\* in this step the store runs the command instance p has sent
Evaluated(p) == inst[p].pc = "sent" /\ inst'[p].pc = "replied"

\* the allow calls of instance p the store has granted / denied so far
Granted(p) ==
    inst[p].allowedRequests +
    (IF inst[p].pc = "replied" /\ inst[p].op = "allow" /\ methodResult(inst[p]).ok
     THEN 1 ELSE 0)

Denied(p) ==
    inst[p].limitedRequests +
    (IF inst[p].pc = "replied" /\ inst[p].op = "allow" /\ ~methodResult(inst[p]).ok
     THEN 1 ELSE 0)

RECURSIVE SumGranted(_)
SumGranted(S) ==
    IF S = {} THEN 0
    ELSE LET p == CHOOSE x \in S : TRUE IN Granted(p) + SumGranted(S \ {p})

RECURSIVE SumDenied(_)
SumDenied(S) ==
    IF S = {} THEN 0
    ELSE LET p == CHOOSE x \in S : TRUE IN Denied(p) + SumDenied(S \ {p})

\* with capacity 1 and refillRate 0, of the allow(1) calls run on a key that
\* was never deleted exactly one is granted (every call here costs 1 token)
OneGrantOnly ==
    (impl = "remote" /\ capacity = 1 /\ refillRate = 0 /\ ~deleted
        /\ SumGranted(Insts) + SumDenied(Insts) >= 1)
    => SumGranted(Insts) = 1

\* C2: overlapping allow calls of several instances on one key behave as a
\* sequential execution of the unit: the store runs the command of one
\* caller at a time, each as one whole refill-decide-consume-write on the
\* state the previous one left, the caller gets that unit's decision, and
\* with capacity 1, refillRate 0 overlapping allow(1) calls on a fresh key
\* give exactly one true.
C2_OverlappingAllowsLinearized ==
    /\ [][ \A p \in Insts :
              (Evaluated(p) /\ inst[p].op = "allow") =>
                  LET u == SeqUnit(redis, inst[p].cost, inst[p].now, TRUE)
                  IN  /\ redis' = u.hash
                      /\ methodResult(inst'[p]).ok = u.allowed
                      /\ \A q \in Insts \ {p} : inst'[q] = inst[q] ]_vars
    /\ []OneGrantOnly

\* C2 witness: two allow(1) calls in flight at once on a fresh key with
\* capacity 1, refillRate 0, both run by the store: one granted, one denied
C2_Witness ==
    /\ impl = "remote" /\ capacity = 1 /\ refillRate = 0 /\ ~deleted
    /\ \E p, q \in Insts :
        /\ p # q
        /\ inst[p].pc = "replied" /\ inst[p].op = "allow"
        /\ inst[q].pc = "replied" /\ inst[q].op = "allow"
        /\ inst[p].totalRequests = 1 /\ inst[q].totalRequests = 1
        /\ methodResult(inst[p]).ok /\ ~methodResult(inst[q]).ok

\* C4: an allow(cost) that returns false leaves the tokens at their refilled
\* value, in the TokenBucket and in the hash the script writes.
C4_DenialKeepsTokens ==
    [][ /\ (totalRequests' = totalRequests + 1 /\ ~last'.ok) =>
              tokens' = ExpectedTokens(tokens, lastRefillTimestamp, getTime)
        /\ \A p \in Insts :
              (Evaluated(p) /\ inst[p].op = "allow" /\ ~methodResult(inst'[p]).ok) =>
                  /\ redis'.exists
                  /\ redis'.tokens =
                        ExpectedTokens(StoreTokens(redis),
                                       StoreLastRefill(redis, inst[p].now),
                                       inst[p].now) ]_vars

\* C4 witness: the script has denied an allow(1) sent with now = 500 on a key
\* refilled to half a token
C4_Witness ==
    /\ impl = "remote"
    /\ \E p \in Insts :
        /\ inst[p].pc = "replied" /\ inst[p].op = "allow"
        /\ ~methodResult(inst[p]).ok
        /\ redis.exists /\ 2 * redis.tokens = TokUnit
        /\ redis.lastRefill = 500

\* the request counters of instance p
RemoteCounters(p) ==
    << inst[p].totalRequests, inst[p].allowedRequests, inst[p].limitedRequests >>

\* C5: check(cost) never consumes: each check leaves the tokens the refill
\* step alone gives at that clock reading (the same tokens when the clock
\* has not moved) and the request counters as they were, in the TokenBucket
\* and in the script run with consume = false.
C5_CheckNeverConsumes ==
    [][ /\ LocalCall("check") =>
              /\ tokens' = ExpectedTokens(tokens, lastRefillTimestamp, getTime)
              /\ getTime = lastRefillTimestamp => tokens' = tokens
              /\ Counters' = Counters
        /\ \A p \in Insts :
              /\ (Evaluated(p) /\ inst[p].op = "check") =>
                    /\ redis'.exists
                    /\ redis'.tokens =
                          ExpectedTokens(StoreTokens(redis),
                                         StoreLastRefill(redis, inst[p].now),
                                         inst[p].now)
              /\ (inst[p].op = "check" \/ inst'[p].op = "check") =>
                    RemoteCounters(p)' = RemoteCounters(p) ]_vars

\* C5 witness: the script has answered a check(1) with 1 on a key holding 1.5
\* tokens, and the key still holds them
C5_Witness ==
    /\ impl = "remote"
    /\ \E p \in Insts :
        /\ inst[p].pc = "replied" /\ inst[p].op = "check"
        /\ methodResult(inst[p]).ok
        /\ redis.exists /\ 2 * redis.tokens = 3 * TokUnit
        /\ inst[p].allowedRequests = 1

\* the calls that observe without consuming
Observers == { "check", "timeToRefill", "getState" }

\* from (tok, lastR), observing at reading now gives (tok2, lastR2): these
\* are min(capacity, tok + D * refillRate), and any later observation gives
\* what it would have given without this one
Linear(tok, lastR, now, tok2, lastR2) ==
    /\ tok2 = ExpectedTokens(tok, lastR, now)
    /\ \A t \in Times :
          t >= lastR2 => ExpectedTokens(tok2, lastR2, t) = ExpectedTokens(tok, lastR, t)

\* C6: refill linearity: with no consumption, the tokens observed after the
\* clock has advanced by D seconds are min(capacity, t0 + D * refillRate),
\* however many observations (check, timeToRefill, getState) were made on the
\* way, in the TokenBucket and in the script.
C6_RefillLinear ==
    [][ /\ (\E op \in Observers : LocalCall(op)) =>
              Linear(tokens, lastRefillTimestamp, getTime,
                     tokens', lastRefillTimestamp')
        /\ \A p \in Insts :
              (Evaluated(p) /\ inst[p].op \in Observers) =>
                  /\ redis'.exists
                  /\ Linear(StoreTokens(redis),
                            StoreLastRefill(redis, inst[p].now), inst[p].now,
                            redis'.tokens, redis'.lastRefill) ]_vars

\* C6 witness: getState at 500 ms shows the 2.5 tokens a bucket of capacity
\* 10, refillRate 5 drained at 0 has regained
C6_Witness ==
    /\ impl = "local"
    /\ capacity = 10 /\ refillRate = 5
    /\ last.op = "getState" /\ last.now = 500
    /\ lastRefillTimestamp = 500
    /\ 2 * last.shown = 5 * TokUnit
    /\ tokens = last.shown

\* Math.ceil(((cost - tok) / refillRate) * 1000), 0 when tok >= cost
ExpectedWait(tok, cost) ==
    IF tok >= cost THEN 0
    ELSE IF refillRate = 0 THEN Infinity
    ELSE 0 - ((0 - (cost - tok) * 1000) \div (refillRate * TokUnit))

\* C8: timeToRefill(cost) returns 0 exactly when the refilled tokens are
\* >= cost and otherwise ceil(((cost - tokens) / refillRate) * 1000), for the
\* TokenBucket and for the RedisTokenBucket (on the tokens the key holds
\* after the script's refill).
C8_TimeToRefillFormula ==
    /\ (impl = "local" /\ last.op = "timeToRefill") =>
          last.wait = ExpectedWait(tokens, last.cost)
    /\ impl = "remote" =>
          \A p \in Insts :
              (inst[p].pc = "replied" /\ inst[p].op = "timeToRefill") =>
                  methodResult(inst[p]).wait =
                      ExpectedWait(inst[p].reply.stored, inst[p].cost)

\* in this step exactly one allow call is counted
OneAllowCounted ==
    /\ totalRequests' = totalRequests + 1
    /\ \/ allowedRequests' = allowedRequests + 1 /\ limitedRequests' = limitedRequests
       \/ allowedRequests' = allowedRequests /\ limitedRequests' = limitedRequests + 1

\* C11: for a TokenBucket, totalRequests = allowedRequests + limitedRequests
\* always; every allow call, also the one of each turn of acquire's loop,
\* adds one to totalRequests and one to exactly one of allowedRequests (when
\* it grants) and limitedRequests; no step lowers a counter; check,
\* timeToRefill, getState and reset leave the three counters as they were.
C11_CountersCountAllows ==
    /\ [](impl = "local" => totalRequests = allowedRequests + limitedRequests)
    /\ [][ impl = "local" =>
            /\ totalRequests' >= totalRequests
            /\ allowedRequests' >= allowedRequests
            /\ limitedRequests' >= limitedRequests
            /\ Counters' # Counters => OneAllowCounted
            /\ LocalCall("allow") =>
                  /\ OneAllowCounted
                  /\ (allowedRequests' = allowedRequests + 1) = last'.ok
            /\ (LocalCall("acquire") /\ last'.threw # "shortage") =>
                  /\ OneAllowCounted
                  /\ (allowedRequests' = allowedRequests + 1) = last'.ok
            /\ \A op \in { "check", "timeToRefill", "getState", "reset" } :
                  LocalCall(op) => Counters' = Counters
          ]_vars

\* C11 witness: the allow call of a turn of acquire's loop was denied and
\* counted, after one granted allow call, and the acquire is waiting
C11_Witness ==
    /\ impl = "local"
    /\ acq.pc = "waiting" /\ last.op = "acquire" /\ ~last.ok /\ last.wait = 1000
    /\ totalRequests = 2 /\ allowedRequests = 1 /\ limitedRequests = 1

\* x rounded to 4 decimals, halves upward (x >= 0, in units)
Round4(x) == IF x % 10 >= 5 THEN (x \div 10 + 1) * 10 ELSE (x \div 10) * 10

C13_HookFailureContained ==
    [][ (impl = "local" /\ onRateLimit = "throws"
            /\ (LocalCall("allow") \/ LocalCall("acquire"))
            /\ hook' = hook + 1) =>
            /\ tokens' = ExpectedTokens(tokens, lastRefillTimestamp, getTime)
            /\ limitedRequests' = limitedRequests + 1
            /\ totalRequests' = totalRequests + 1
            /\ allowedRequests' = allowedRequests
            /\ ~last'.ok
            /\ last'.threw # "hook"
      ]_vars

\* C14: the constructor of a TokenBucket or RedisTokenBucket throws exactly
\* when capacity <= 0 or refillRate < 0, and then there is no bucket: no
\* method can be called and nothing changes; a bucket that was constructed
\* keeps its capacity and refillRate in every step.
C14_ConstructionValidated ==
    /\ [](/\ (impl = "none") = (capacity <= 0 \/ refillRate < 0)
          /\ impl \in { "local", "remote" } => (capacity > 0 /\ refillRate >= 0))
    /\ [][ /\ impl # "none"
           /\ impl' = impl
           /\ capacity' = capacity
           /\ refillRate' = refillRate ]_vars

\* C14 witness: capacity 0 was rejected
C14_Witness ==
    /\ impl = "none"
    /\ capacity = 0 /\ refillRate = 1
    /\ last.threw = "config"

\* C15: when the store runs the script of any instance on a key that does
\* not exist (never written, or deleted), the script starts from tokens =
\* capacity and lastRefill = now: the key then holds lastRefill = now and
\* capacity less what was consumed, and an allow(c) with c <= capacity is
\* granted and leaves capacity - c.
C15_AbsentKeyStartsFull ==
    [][ \A p \in Insts :
          (impl = "remote" /\ Evaluated(p) /\ inst[p].op # "reset"
              /\ ~redis.exists) =>
            LET i == inst[p]
            IN  /\ redis'.exists
                /\ redis'.lastRefill = i.now
                /\ inst'[p].reply.stored = redis'.tokens
                /\ i.op # "allow" => redis'.tokens = CapacityUnits
                /\ (i.op = "allow" /\ i.cost <= CapacityUnits) =>
                      /\ methodResult(inst'[p]).ok
                      /\ redis'.tokens = CapacityUnits - i.cost
      ]_vars

\* C15 witness: the first command the key ever receives is an allow(1) at
\* 500 ms, and it is granted
C15_Witness ==
    /\ impl = "remote" /\ ~deleted
    /\ inst["B"].pc = "replied" /\ inst["B"].op = "allow"
    /\ methodResult(inst["B"]).ok
    /\ inst["A"].totalRequests = 0 /\ inst["A"].pc = "idle"
    /\ inst["B"].totalRequests = 1
    /\ redis.exists /\ redis.lastRefill = 500
    /\ redis.tokens = CapacityUnits - TokUnit

\* C16: the store runs a reset as one DEL: the key no longer exists, and
\* no other instance's call is touched by the step; every change of the key
\* is the whole of one instance's command, a DEL or a script run from the
\* state the previous command left; the first script run after a DEL finds
\* no key and so works on tokens = capacity and lastRefill = its own now.
C16_ResetDeletesKey ==
    [][ impl = "remote" =>
          /\ \A p \in Insts :
                Evaluated(p) =>
                  /\ \A q \in Insts \ {p} : inst'[q] = inst[q]
                  /\ inst[p].op = "reset" => (~redis'.exists /\ deleted')
                  /\ inst[p].op # "reset" =>
                        /\ redis' = SeqUnit(redis, scriptCost(inst[p].op, inst[p].cost),
                                            inst[p].now, inst[p].op = "allow").hash
                        /\ (deleted /\ ~redis.exists) =>
                              /\ redis'.lastRefill = inst[p].now
                              /\ redis'.tokens =
                                   CapacityUnits -
                                     (IF inst[p].op = "allow" THEN inst[p].cost ELSE 0)
          /\ redis' # redis => \E p \in Insts : Evaluated(p)
      ]_vars

\* C16 witness: on a bucket that never refills, instance A was granted the
\* only token, instance B's reset reached the store while A's second allow
\* was pending, and that allow, run after the DEL, is granted
C16_Witness ==
    /\ impl = "remote" /\ deleted
    /\ capacity = 1 /\ refillRate = 0
    /\ inst["A"].allowedRequests = 1
    /\ inst["A"].pc = "replied" /\ inst["A"].op = "allow"
    /\ methodResult(inst["A"]).ok
    /\ inst["B"].pc = "replied" /\ inst["B"].op = "reset"
    /\ redis.tokens = 0

\* C17: one caller making the same calls, at the same clock readings, on a
\* TokenBucket and on a RedisTokenBucket with a key never written gets the
\* same result from both for every call (allow and check: the decision;
\* timeToRefill: the wait; getState: tokens and lastRefill), and the two
\* show the same getMetrics counters.
C17_RemoteMatchesLocal ==
    (impl = "pair" /\ last.op # "new") =>
        LET i == inst["A"]
            m == methodResult(i)
        IN  /\ i.op = last.op
            /\ last.op \in { "allow", "check" } => m.ok = last.ok
            /\ last.op = "timeToRefill" => m.wait = last.wait
            /\ last.op = "getState" =>
                  /\ m.shown = last.shown
                  /\ i.reply.lastRefill = lastRefillTimestamp
            /\ RemoteCounters("A") = Counters

\* C18: when the store or the transport fails the command of a
\* RedisTokenBucket call (allow, check, timeToRefill, getState), the call
\* throws: it returns no result, and an allow so failed is counted neither
\* as allowed nor as limited; a call throws only on such a failure, and the
\* allowed/limited counters move only when an allow returns on a reply.
C18_StoreFailureNotMasked ==
    [][ impl = "remote" =>
          \A p \in Insts :
            /\ (inst[p].pc = "sent" /\ inst'[p].pc \notin { "sent", "replied" }) =>
                  /\ inst'[p].pc = "threw"
                  /\ inst'[p].totalRequests = inst[p].totalRequests
                  /\ inst'[p].allowedRequests = inst[p].allowedRequests
                  /\ inst'[p].limitedRequests = inst[p].limitedRequests
            /\ (inst'[p].pc = "threw" /\ inst[p].pc # "threw") => inst[p].pc = "sent"
            /\ (inst'[p].allowedRequests # inst[p].allowedRequests
                  \/ inst'[p].limitedRequests # inst[p].limitedRequests) =>
                  /\ inst[p].pc = "replied" /\ inst[p].op = "allow"
                  /\ inst'[p].pc = "idle"
      ]_vars

\* C18 witness: the script of instance A's first allow ran and took the
\* token, its reply was lost, and the call threw: one request counted,
\* neither allowed nor limited
C18_Witness ==
    /\ impl = "remote"
    /\ inst["A"].pc = "threw"
    /\ inst["A"].totalRequests = 1
    /\ inst["A"].allowedRequests = 0 /\ inst["A"].limitedRequests = 0
    /\ inst["B"].totalRequests = 0 /\ inst["B"].pc = "idle"
    /\ redis.exists /\ redis.tokens = CapacityUnits - TokUnit

\* the step is a call of allow, check, timeToRefill or getState of the
\* TokenBucketManager with identifier k
ManagerOp(k) ==
    /\ impl = "manager"
    /\ dateNow' = dateNow
    /\ mlast'.op \in { "allow", "check", "timeToRefill", "getState" }
    /\ mlast'.key = k

\* the entry e is within its TTL at the reading now, or there is no TTL
Live(e, now) == e.present /\ (ttlMs = Undefined \/ now - e.lastAccess <= ttlMs)

\* the tokens bucket b holds once the call recorded in c has run on it at
\* the reading now
TokensAfter(b, c, now) ==
    ExpectedTokens(b.tokens, b.lastRefillTimestamp, now)
      - (IF c.op = "allow" /\ c.ok THEN c.cost ELSE 0)

\* C19: a call of the TokenBucketManager with an identifier whose entry is
\* live works on the bucket of that entry (the same instance, its state
\* carried on) without calling the factory; with an identifier that has no
\* entry it calls the factory once with that identifier and stores the new
\* bucket; either way the entry's lastAccess is then now, the other entries
\* are untouched, and the factory is called in no other step.
C19_ResolveReusesOrCreates ==
    [][ impl = "manager" =>
          /\ \A k \in Keys :
                ManagerOp(k) =>
                  LET e == buckets[k]
                  IN  /\ buckets'[k].present
                      /\ buckets'[k].lastAccess = dateNow
                      /\ Live(e, dateNow) =>
                            /\ factoryCalls'[k] = factoryCalls[k]
                            /\ buckets'[k].bucket.id = e.bucket.id
                            /\ buckets'[k].bucket.tokens =
                                  TokensAfter(e.bucket, mlast', dateNow)
                            /\ buckets'[k].bucket.totalRequests =
                                  e.bucket.totalRequests +
                                    (IF mlast'.op = "allow" THEN 1 ELSE 0)
                      /\ ~e.present =>
                            /\ factoryCalls'[k] = factoryCalls[k] + 1
                            /\ buckets'[k].bucket.id = factoryCalls'[k]
                      /\ \A j \in Keys \ {k} :
                            /\ buckets'[j] = buckets[j]
                            /\ factoryCalls'[j] = factoryCalls[j]
          /\ \A k \in Keys :
                factoryCalls'[k] # factoryCalls[k] =>
                    /\ ManagerOp(k)
                    /\ ~Live(buckets[k], dateNow)
                    /\ factoryCalls'[k] = factoryCalls[k] + 1
      ]_vars

\* C19 witness: with a TTL of one second, "a" was resolved at 0 and again
\* at 500: one factory call, the same bucket has served two allow calls,
\* and lastAccess is 500
C19_Witness ==
    /\ impl = "manager" /\ ttlMs = 1000
    /\ dateNow = 500
    /\ factoryCalls["a"] = 1
    /\ buckets["a"].present /\ buckets["a"].lastAccess = 500
    /\ buckets["a"].bucket.id = 1
    /\ buckets["a"].bucket.totalRequests = 2
    /\ buckets["a"].bucket.lastRefillTimestamp = 500

\* C20: when a call of the TokenBucketManager resolves an identifier that
\* has an entry and a TTL is configured, then with now - lastAccess > ttlMs
\* the entry is replaced by one holding a newly constructed bucket (full
\* before the call acts on it, counters from zero: the prior state is lost),
\* and with now - lastAccess <= ttlMs the bucket and its state are kept.
C20_LazyEviction ==
    [][ \A k \in Keys :
          (ManagerOp(k) /\ buckets[k].present /\ ttlMs # Undefined) =>
            LET e == buckets[k]
                n == buckets'[k]
                isAllow == IF mlast'.op = "allow" THEN 1 ELSE 0
            IN  IF dateNow - e.lastAccess > ttlMs
                THEN /\ n.present
                     /\ n.bucket.id # e.bucket.id
                     /\ n.bucket.id = factoryCalls'[k]
                     /\ n.bucket.tokens =
                           CapacityUnits -
                             (IF mlast'.op = "allow" /\ mlast'.ok
                              THEN mlast'.cost ELSE 0)
                     /\ n.bucket.lastRefillTimestamp = dateNow
                     /\ n.bucket.totalRequests = isAllow
                     /\ mlast'.op = "allow" => mlast'.ok
                ELSE /\ n.present
                     /\ n.bucket.id = e.bucket.id
                     /\ n.bucket.tokens = TokensAfter(e.bucket, mlast', dateNow)
                     /\ n.bucket.totalRequests = e.bucket.totalRequests + isAllow
                     /\ n.bucket.allowedRequests >= e.bucket.allowedRequests
                     /\ n.bucket.limitedRequests >= e.bucket.limitedRequests
      ]_vars

\* C20 witness: ttlMs = 1000, a bucket that never refills; the second bucket
\* constructed for "a" has granted an allow at 2000: the emptied first
\* bucket was discarded
C20_Witness ==
    /\ impl = "manager" /\ ttlMs = 1000
    /\ capacity = 1 /\ refillRate = 0
    /\ dateNow = 2000
    /\ mlast.op = "allow" /\ mlast.key = "a" /\ mlast.ok
    /\ factoryCalls["a"] = 2
    /\ buckets["a"].bucket.id = 2
    /\ buckets["a"].lastAccess = 2000
    /\ buckets["a"].bucket.totalRequests = 1
    /\ buckets["a"].bucket.tokens = 0

\* C21: cleanup() of the TokenBucketManager deletes exactly the entries
\* with now - lastAccess > ttlMs and leaves every other entry as it was
\* (bucket and lastAccess); without a ttlMs it deletes nothing; it never
\* calls the factory.
C21_CleanupRemovesExpired ==
    [][ (impl = "manager" /\ dateNow' = dateNow /\ mlast'.op = "cleanup") =>
          /\ factoryCalls' = factoryCalls
          /\ \A k \in Keys :
                IF buckets[k].present /\ ttlMs # Undefined
                      /\ dateNow - buckets[k].lastAccess > ttlMs
                THEN ~buckets'[k].present
                ELSE buckets'[k] = buckets[k]
      ]_vars

\* C21 witness: ttlMs = 1000; "a" was last accessed at 0 and "b" at 500;
\* cleanup at 1500 has removed "a" and kept "b" (idle for exactly ttlMs)
C21_Witness ==
    /\ impl = "manager" /\ ttlMs = 1000
    /\ dateNow = 1500 /\ mlast.op = "cleanup"
    /\ factoryCalls["a"] = 1 /\ ~buckets["a"].present
    /\ buckets["b"].present /\ buckets["b"].lastAccess = 500

\* the step is a call of TokenBucketManager.allow with identifier k
ManagerAllows(k) == ManagerOp(k) /\ mlast'.op = "allow"

\* C22 as stated: a call of TokenBucketManager.allow returns the result of
\* allow(cost) of the resolved bucket; when that is a denial the manager's
\* hook, if there is one, is invoked exactly once with the identifier and
\* the state of that bucket, and so is the bucket's own hook; when it is a
\* grant neither hook is invoked.
C22_ManagerAllowReturnsAndHooksOnce ==
    [][ \A k \in Keys :
          ManagerAllows(k) =>
            LET e       == buckets[k]
                n       == buckets'[k].bucket
                before  == IF Live(e, dateNow)
                           THEN ExpectedTokens(e.bucket.tokens,
                                               e.bucket.lastRefillTimestamp, dateNow)
                           ELSE CapacityUnits
                granted == before >= mlast'.cost
            IN  /\ mlast'.threw = "no"
                /\ mlast'.ok = granted
                /\ granted => hook' = hook /\ managerHook' = managerHook
                /\ ~granted =>
                      /\ hook' = hook + (IF onRateLimit # "none" THEN 1 ELSE 0)
                      /\ managerHook' =
                            managerHook + (IF managerOnRateLimit # "none" THEN 1 ELSE 0)
                      /\ managerOnRateLimit # "none" =>
                            mlast'.shown = Round4(n.tokens)
      ]_vars

\* the step is the entry of acquire, up to its first await, return or throw
AcquireEntered == LocalCall("acquire") /\ acq.pc = "none"

\* the tokens the bucket can currently offer: those a refill at the present
\* clock reading leaves
Offered == ExpectedTokens(tokens, lastRefillTimestamp, getTime)

\* C23: on a bucket with refillRate = 0, acquire(cost) entered when the
\* bucket offers fewer than cost tokens throws at once the
\* permanent-shortage error (not the timeout error), takes nothing and
\* suspends nothing; entered when it offers at least cost it returns at
\* once having taken cost; and no acquire is ever suspended on such a bucket.
C23_PermanentShortage ==
    /\ []((impl = "local" /\ refillRate = 0) => acq.pc = "none")
    /\ [][ (AcquireEntered /\ refillRate = 0) =>
              /\ acq'.pc = "none"
              /\ IF Offered < last'.cost
                 THEN /\ last'.threw = "shortage"
                      /\ last'.threw # "timeout"
                      /\ ~last'.ok
                      /\ tokens' = Offered
                 ELSE /\ last'.threw = "no"
                      /\ last'.ok
                      /\ tokens' = Offered - last'.cost
       ]_vars

\* C23 witness: on a bucket of capacity 1 and refillRate 0 whose token an
\* allow has taken, acquire(1) with a timeout has thrown the
\* permanent-shortage error
C23_Witness ==
    /\ impl = "local" /\ capacity = 1 /\ refillRate = 0
    /\ tokens = 0 /\ allowedRequests = 1 /\ limitedRequests = 0
    /\ last.op = "acquire" /\ last.cost = TokUnit
    /\ last.threw = "shortage" /\ acq.pc = "none"

\* the step is a turn of acquire's loop whose allow attempt was denied
AcquireDenied == LocalCall("acquire") /\ limitedRequests' = limitedRequests + 1

\* C24 as stated: after a denied allow attempt of acquire(cost, timeoutMs)
\* with a timeoutMs, when the time elapsed since acquire was entered plus
\* timeToRefill(cost) exceeds timeoutMs, acquire throws the timeout error
\* and suspends nothing; so whenever a suspension begins, the elapsed time
\* plus the wait is within timeoutMs.
C24_TimeoutInsteadOfSuspending ==
    [][ (AcquireDenied /\ last'.timeoutMs # Undefined) =>
          LET c    == last'
              wait == ExpectedWait(Offered, c.cost)
          IN  /\ (c.now - c.start) + wait > c.timeoutMs =>
                    /\ c.threw = "timeout"
                    /\ acq'.pc = "none"
              /\ acq'.pc = "waiting" =>
                    /\ c.wait = wait
                    /\ (c.now - c.start) + c.wait <= c.timeoutMs
                    /\ ~injected => acq'.due <= dateNow + (c.timeoutMs - (c.now - c.start))
      ]_vars

\* the step is allow(cost) called straight after timeToRefill(cost) has
\* returned a wait > 0 for a cost <= capacity on a bucket that refills, the
\* clock having moved on by d ms since
AllowAfterWait(d) ==
    /\ LocalCall("allow")
    /\ last.op = "timeToRefill" /\ last.wait > 0
    /\ last'.cost = last.cost
    /\ last.cost <= CapacityUnits /\ refillRate > 0
    /\ getTime = last.now + d

\* C25 as stated: for cost <= capacity and refillRate > 0, allow(cost)
\* called when the clock has advanced by exactly the wait timeToRefill(cost)
\* returned, nothing consumed in between, returns true (so that an
\* uncontended acquire needs one suspension at most), and called when the
\* clock has advanced by 1 ms less than that wait it returns false.
C25_WaitIsExact ==
    [][ /\ AllowAfterWait(last.wait) => last'.ok
        /\ AllowAfterWait(last.wait - 1) => ~last'.ok
      ]_vars

\* C26: every run of the script (for allow, granted or denied, check,
\* timeToRefill, getState) writes to the key the tokens after its refill and
\* its consumption and the lastRefill after its refill: the tokens are
\* min(capacity, old tokens + refill up to now) less the cost of a granted
\* allow, and lastRefill is now when now is later than the old lastRefill
\* (and the old one otherwise), so that what a later run finds is what it
\* would have found had the refill been counted from the old state.
C26_ScriptWritesBack ==
    [][ \A p \in Insts :
          (Evaluated(p) /\ inst[p].op \in { "allow" } \cup Observers) =>
            LET now      == inst[p].now
                l0       == StoreLastRefill(redis, now)
                refilled == ExpectedTokens(StoreTokens(redis), l0, now)
                taken    == IF inst[p].op = "allow" /\ refilled >= inst[p].cost
                            THEN inst[p].cost ELSE 0
            IN  /\ redis'.exists
                /\ redis'.tokens = refilled - taken
                /\ redis'.lastRefill = (IF now > l0 THEN now ELSE l0)
                /\ taken = 0 =>
                      \A t \in Times :
                          t >= redis'.lastRefill =>
                              ExpectedTokens(redis'.tokens, redis'.lastRefill, t) =
                              ExpectedTokens(StoreTokens(redis), l0, t)
      ]_vars

\* C26 witness: an instance has granted one allow(1) and is idle; the script
\* has then denied the allow(1) another instance sent with now = 500, and
\* the key holds the half token refilled by then, with lastRefill = 500
C26_Witness ==
    /\ impl = "remote" /\ capacity = 1 /\ refillRate = 1 /\ ~deleted
    /\ \E p, q \in Insts :
        /\ p # q
        /\ inst[q].pc = "idle" /\ inst[q].allowedRequests = 1
        /\ inst[p].pc = "replied" /\ inst[p].op = "allow"
        /\ inst[p].reply.allowed = 0
        /\ redis.exists /\ redis.lastRefill = 500
        /\ redis.tokens + redis.tokens = TokUnit

\* C27: however the calls of the TokenBucketManager (allow, check,
\* timeToRefill, getState, cleanup) for one identifier interleave, each
\* resolves and creates in one step: an identifier has at most one bucket,
\* the last one the factory constructed for it; a bucket is replaced by
\* another only when its entry has expired; and a call that finds a live
\* entry, such as the second of two calls for a new identifier, gets the
\* bucket of the first without a factory call, the factory having been
\* called once for the two.
C27_OneInstancePerIdentifier ==
    /\ [](impl = "manager" =>
            \A k \in Keys :
                /\ buckets[k].present => buckets[k].bucket.id = factoryCalls[k]
                /\ factoryCalls[k] = 0 => ~buckets[k].present)
    /\ [][ impl = "manager" =>
            \A k \in Keys :
                /\ factoryCalls'[k] \in { factoryCalls[k], factoryCalls[k] + 1 }
                /\ (ManagerOp(k) /\ Live(buckets[k], dateNow)) =>
                      /\ factoryCalls'[k] = factoryCalls[k]
                      /\ buckets'[k].present
                      /\ buckets'[k].bucket.id = buckets[k].bucket.id
                /\ (ManagerOp(k) /\ ~buckets[k].present) =>
                      /\ factoryCalls'[k] = factoryCalls[k] + 1
                      /\ Live(buckets'[k], dateNow)
                /\ (buckets[k].present /\ buckets'[k].present
                        /\ buckets'[k].bucket.id # buckets[k].bucket.id) =>
                      /\ ~Live(buckets[k], dateNow)
                      /\ factoryCalls'[k] = factoryCalls[k] + 1
         ]_vars

\* C27 witness: with no TTL, three calls for the new identifier "a" (the
\* last one getState at 2000) have been served by one bucket, the factory
\* called once for it, while "b" has none
C27_Witness ==
    /\ impl = "manager" /\ ttlMs = Undefined /\ dateNow = 2000
    /\ mlast.op = "getState" /\ mlast.key = "a"
    /\ factoryCalls["a"] = 1 /\ factoryCalls["b"] = 0
    /\ buckets["a"].present /\ buckets["a"].bucket.id = 1
    /\ buckets["a"].bucket.totalRequests = 2
    /\ buckets["a"].lastAccess = 2000

\* C28: on a TokenBucket whose clock never goes back, which is never reset
\* and whose callers pass costs > 0, the tokens granted by successful allow
\* calls (made directly or by acquire) from the construction at t0 up to any
\* clock reading t are at most capacity + refillRate * (t - t0) / 1000.
C28_RateEnvelope ==
    impl = "local" =>
        /\ getTime >= ConstructedAt
        /\ consumed <= CapacityUnits + RefillAmount(getTime - ConstructedAt)

\* C28 witness: capacity 10, refillRate 5: two calls have been granted more
\* than the capacity between them by the reading 2000, the later one out of
\* the 7.5 tokens refilled since the construction
C28_Witness ==
    /\ impl = "local" /\ capacity = 10 /\ refillRate = 5
    /\ getTime = 2000
    /\ consumed > CapacityUnits
    /\ allowedRequests = 2

\* an acquire without timeoutMs is suspended on a cost above the capacity
HopelessSuspension ==
    /\ impl = "local"
    /\ acq.pc = "waiting" /\ acq.timeoutMs = Undefined
    /\ acq.cost > CapacityUnits

\* C29 as stated: every acquire(cost) without timeoutMs returns or throws in
\* the end, also when cost can never be satisfied.  The tokens never exceed
\* the capacity after a refill, so an acquire suspended on a cost above the
\* capacity is denied and suspended again each time its delay ends; the
\* claim therefore requires that no such suspension is ever begun.
C29_AcquireTerminates == ~HopelessSuspension

\* the step is a turn of acquire (its entry or a wake) in which allow(cost)
\* was attempted
AcquireAttempt == LocalCall("acquire") /\ totalRequests' = totalRequests + 1

\* C30: a step of acquire(cost) either throws the permanent shortage, and
\* then takes no tokens, counts no request and invokes no hook; or makes one
\* allow attempt.  A denied attempt takes no tokens, counts one limited
\* request and invokes the hook (if there is one) once, whether acquire then
\* suspends or throws the timeout; a granted attempt takes exactly cost,
\* counts one allowed request, invokes no hook and ends the call, so that
\* the cost is taken once.  Hence a call that fails has taken nothing and
\* one that succeeds has taken cost once.
C30_AcquireConsumption ==
    [][ LocalCall("acquire") =>
          LET c == last'
          IN  /\ c.threw = "shortage" =>
                    /\ tokens' = Offered
                    /\ Counters' = Counters
                    /\ hook' = hook
                    /\ acq.pc = "none" /\ acq'.pc = "none"
              /\ c.threw # "shortage" => AcquireAttempt
              /\ (AcquireAttempt /\ ~c.ok) =>
                    /\ tokens' = Offered
                    /\ Offered < c.cost
                    /\ limitedRequests' = limitedRequests + 1
                    /\ allowedRequests' = allowedRequests
                    /\ hook' = hook + (IF onRateLimit # "none" THEN 1 ELSE 0)
                    /\ c.threw = "timeout" => acq'.pc = "none"
              /\ (AcquireAttempt /\ c.ok) =>
                    /\ tokens' = Offered - c.cost
                    /\ allowedRequests' = allowedRequests + 1
                    /\ limitedRequests' = limitedRequests
                    /\ hook' = hook
                    /\ c.threw = "no"
                    /\ acq'.pc = "none"
              /\ (acq'.pc = "none" /\ c.threw = "no") => c.ok
      ]_vars

\* C30 witness: on capacity 1, refillRate 1 with a hook, allow(1) took the
\* token at 0 and acquire(1, 100) entered at 500 was denied on the half
\* token refilled and threw the timeout: the half token is still there, one
\* limited request was counted and the hook was invoked once
C30_Witness ==
    /\ impl = "local" /\ capacity = 1 /\ refillRate = 1
    /\ last.op = "acquire" /\ ~last.ok /\ last.threw = "timeout"
    /\ last.timeoutMs = 100 /\ last.start = 500 /\ last.now = 500
    /\ acq.pc = "none"
    /\ tokens + tokens = TokUnit
    /\ allowedRequests = 1 /\ limitedRequests = 1 /\ hook = 1

\* C31 as stated: with a TTL or without, the tokens manager.allow has
\* granted for an identifier from its first use at t0 up to any later
\* reading t of the clock are at most capacity + refillRate * (t - t0) / 1000.
C31_ManagerRateEnvelope ==
    impl = "manager" =>
        \A k \in Keys :
            consumed[k].firstUse # Undefined =>
                consumed[k].granted <=
                    CapacityUnits + RefillAmount(managerNow - consumed[k].firstUse)

\* in this step a script run sets the key's expiry to ttlSeconds from now
\* when ttlSeconds > 0, and leaves the key without expiry otherwise
ExpiryRefreshed ==
    \A p \in Insts :
        Evaluated(p) =>
            expireAt' = IF ttlSeconds > 0 THEN dateNow + ttlSeconds * 1000
                        ELSE Undefined

\* the tokens granted on the key since its first use are within
\* capacity + refillRate * (t - t0) / 1000
RemoteEnvelope ==
    consumed.firstUse # Undefined =>
        consumed.granted <=
            CapacityUnits + RefillAmount(dateNow - consumed.firstUse)

\* C32: on a remote key, every script run (consuming or not) refreshes the
\* expiry when ttlSeconds > 0 and no expiry is ever set when ttlSeconds is 0
\* or absent; and, the key expiring when idle and being re-initialized full
\* on its next use, the tokens granted on the key since its first use at t0
\* never exceed capacity + refillRate * (t - t0) / 1000
C32_RemoteEnvelopeWithExpiry ==
    /\ [](impl = "remote" =>
            /\ (ttlSeconds = 0 => expireAt = Undefined)
            /\ RemoteEnvelope)
    /\ [][ExpiryRefreshed]_vars

\* the tokens the script of instance p's command takes in this step
Taken(p) ==
    IF inst[p].op = "allow" /\ inst'[p].reply.allowed = 1 THEN inst[p].cost ELSE 0

\* in this step no script run moves the stored lastRefill back, and a run
\* with now <= lastRefill leaves it as it is and adds no refill
SkewedRun ==
    \A p \in Insts :
        (Evaluated(p) /\ redis.exists) =>
            /\ redis'.exists
            /\ redis'.lastRefill >= redis.lastRefill
            /\ inst[p].now <= redis.lastRefill =>
                  /\ redis'.lastRefill = redis.lastRefill
                  /\ redis'.tokens = redis.tokens - Taken(p)

\* the stored tokens are within 0..capacity
StoredWithinCapacity ==
    redis.exists => (0 <= redis.tokens /\ redis.tokens <= CapacityUnits)

\* C33: on a remote key shared by instances whose clocks differ, neither
\* reset nor expired, the stored lastRefill never decreases and the stored
\* tokens stay within 0..capacity; a call with now <= lastRefill adds no
\* refill and leaves lastRefill unchanged
C33_SkewedClocks ==
    /\ [](impl = "remote" => StoredWithinCapacity)
    /\ [][SkewedRun]_vars

\* no allow call of instance p is in flight: p is between calls (the last
\* one returned or threw), or the call it awaits is not an allow
NoAllowInFlight(p) ==
    inst[p].pc \in { "idle", "threw" } \/ inst[p].op # "allow"

\* in this step the counters of an instance move only with that instance's
\* own call
CountersPerInstance ==
    \A p \in Insts :
        \A q \in Insts \ {p} :
            inst'[p] # inst[p] => RemoteCounters(q)' = RemoteCounters(q)

\* C34: for each RedisTokenBucket instance, totalRequests = allowedRequests
\* + limitedRequests whenever no allow call of that instance is in flight,
\* also after allow calls that ended with a store failure; and the counters
\* of an instance are not moved by the calls of other instances on the key
C34_RemoteCountersBalance ==
    /\ [](impl = "remote" =>
            \A p \in Insts :
                NoAllowInFlight(p) =>
                    inst[p].totalRequests =
                        inst[p].allowedRequests + inst[p].limitedRequests)
    /\ [][CountersPerInstance]_vars
====
